---- MODULE Spec2Model ----
(***************************************************************************)
(* HiRAG_Law: the cache-and-index subsystem.                               *)
(*                                                                         *)
(* DatabaseManager (src/src/database_manager.py) keeps three stores:       *)
(*   - SQLite: tables documents, hierarchy, cache_status                   *)
(*   - ChromaDB: one collection doc_<id>_embeddings per document           *)
(*   - the objects directory: doc_<id>_top_index.pkl, doc_<id>_engines.pkl *)
(* main (src/src/main.py) and db_cli (src/src/db_cli.py) drive it.         *)
(*                                                                         *)
(* A content mapping (a Python dict title -> dict | str, insertion         *)
(* ordered) is a sequence of nodes; a title is <<marker, number>> so that  *)
(* title.startswith("Mục") is a test of the marker.                        *)
(***************************************************************************)
EXTENDS Integers, Sequences, FiniteSets, TLC

VARIABLES
    files,          \* path -> hash of the file's bytes on disk
    documents,      \* table documents: set of rows
    docSeq,         \* sqlite_sequence of documents (AUTOINCREMENT)
    hierarchy,      \* table hierarchy: set of rows
    hierSeq,        \* sqlite_sequence of hierarchy (AUTOINCREMENT)
    cache_status,   \* table cache_status: document_id -> row | NoRow
    chroma,         \* collection doc_<id>_embeddings: id -> set of vector ids | NoColl
    objects,        \* objects dir: <<id, kind>> -> file content | NoFile
    mainPc,         \* main(): position
    mainLocals,     \* main(): doc_id, law_tree, how the run went
    cliPc,          \* db_cli command: position
    cliLocals,      \* db_cli command: doc_id, law_tree
    call,           \* the last DatabaseManager call: name, doc, ret
    everBuilt,      \* history: a build run committed and nothing changed since
    inputTree,      \* round trip: the tree handed to save_law_tree
    treePc,         \* round trip: position
    regs,           \* concurrent register_document calls: position and locals of each
    settings        \* llama_index Settings.llm: the class set up and the state of its service

vars == <<files, documents, docSeq, hierarchy, hierSeq, cache_status, chroma, objects, mainPc, mainLocals, cliPc, cliLocals, call, everBuilt, inputTree, treePc, regs, settings>>

dbVars == <<documents, docSeq, hierarchy, hierSeq, cache_status, chroma, objects>>

----------------------------------------------------------------------------
(* Bounds *)

MaxHash == 3
MaxHierId == 8
MaxParts == 2
MaxChapters == 2
MaxArticles == 2
MaxClauses == 2

\* main.py registers one file, data/bo_luat_dan_su_2015.docx
MainPath == 1
Paths == {MainPath}
\* the ids the one registered path can get; every doc_id argument is drawn from it
DocIds == {1}
Hashes == 1..MaxHash

NULL == 0
\* Optional values: None, or Some(x)
None == <<>>
Some(x) == <<x>>
\* no cache_status row, no collection, no file
NoRow == <<>>
NoColl == <<>>
NoFile == <<>>
\* a collection holding these vector ids
Coll(ids) == [ids |-> ids]
\* a complete pickle of the index built from the file with hash h; a truncated one
Pickle(h) == <<"pickle", h>>
Partial == <<"partial">>
Kinds == {"top_index", "engines"}

----------------------------------------------------------------------------
(* Trees: the parser's output, law_tree["content"] *)

Leaf(t, x) == [title |-> t, isDict |-> FALSE, text |-> x, kids |-> <<>>]

Branch(t, k) == [title |-> t, isDict |-> TRUE, text |-> "", kids |-> k]

ClauseText(i) == IF i = 1 THEN "alpha" ELSE IF i = 2 THEN "" ELSE "gamma"

ClauseSeq(n) == [i \in 1..n |-> Leaf(<<"Khoan", i>>, ClauseText(i))]

\* clauses whose text is empty after strip()
BlankClauseSeq(n) == [i \in 1..n |-> Leaf(<<"Khoan", i>>, "")]

\* articles with blank clauses only
BlankArticleSeq(na, ncl) == [j \in 1..na |-> Branch(<<"Dieu", j>>, BlankClauseSeq(ncl))]

\* the second article has blank clauses only
ArticleSeq(na, ncl) == [j \in 1..na |-> Branch(<<"Dieu", j>>, IF j = 2 THEN BlankClauseSeq(ncl) ELSE ClauseSeq(ncl))]

SectionSeq(na, ncl) == <<Branch(<<"Muc", 1>>, ArticleSeq(na, ncl))>>

\* sparse: only the first chapter of the first part has an article with text
ChapterBody(shape, c, na, ncl) ==
    IF shape = "sections" \/ (shape = "mixed" /\ c % 2 = 1) THEN SectionSeq(na, ncl)
    ELSE IF shape = "sparse" /\ c > 1 THEN BlankArticleSeq(na, ncl)
    ELSE ArticleSeq(na, ncl)

ChapterSeq(shape, nc, na, ncl) == [c \in 1..nc |-> Branch(<<"CHUONG", c>>, ChapterBody(shape, c, na, ncl))]

BlankChapterSeq(nc, na, ncl) == [c \in 1..nc |-> Branch(<<"CHUONG", c>>, BlankArticleSeq(na, ncl))]

MkTree(np, nc, shape, na, ncl) ==
    [p \in 1..np |-> Branch(<<"PHAN", p>>, IF shape = "sparse" /\ p > 1 THEN BlankChapterSeq(nc, na, ncl) ELSE ChapterSeq(shape, nc, na, ncl))]

Shapes == {"sections", "articles", "mixed", "sparse"}

TreeFamily == {MkTree(np, nc, sh, na, ncl) : np \in 0..MaxParts, nc \in 0..MaxChapters, sh \in Shapes, na \in 0..MaxArticles, ncl \in 0..MaxClauses}

----------------------------------------------------------------------------
(* save_law_tree / _save_hierarchy_recursive *)

\* the keys of level_mapping
level_mapping == {"root", "part", "chapter", "section", "article"}

StartsWithMuc(title) == title[1] = "Muc"

\* level_mapping[level][0], with the chapter special case
NextLevel(level, sub_content) ==
    CASE level = "root" -> "part"
      [] level = "part" -> "chapter"
      [] level = "chapter" -> IF StartsWithMuc(sub_content[1].title) THEN "section" ELSE "article"
      [] level = "section" -> "article"
      [] level = "article" -> "clause"

HRow(id, doc, parent, level, title, content, order) == [id |-> id, document_id |-> doc, parent_id |-> parent, level |-> level, title |-> title, content |-> content, order_index |-> order, vector_collection |-> NULL]

\* acc = [rows, seq, ok]: the rows inserted so far in this transaction, the
\* last rowid, and whether no exception was raised.  Items i.. of content.
RECURSIVE SaveRec(_, _, _, _, _, _, _)
SaveRec(acc, doc_id, content, parent_id, level, order, i) ==
    IF ~acc.ok \/ i > Len(content) THEN acc
    ELSE LET item == content[i]
             node_id == acc.seq + 1
             acc1 == [rows |-> acc.rows \cup {HRow(node_id, doc_id, parent_id, level, item.title, "", order + (i - 1))}, seq |-> node_id, ok |-> TRUE]
             acc2 == IF item.isDict /\ level \in level_mapping
                     THEN IF level = "chapter" /\ item.kids = <<>>
                          THEN [acc1 EXCEPT !.ok = FALSE]   \* next(iter({})) raises StopIteration
                          ELSE SaveRec(acc1, doc_id, item.kids, node_id, NextLevel(level, item.kids), 0, 1)
                     ELSE acc1   \* a str, or a dict below level_mapping: nothing more is stored
         IN SaveRec(acc2, doc_id, content, parent_id, level, order, i + 1)

_save_hierarchy_recursive(doc_id, content, seq) == SaveRec([rows |-> {}, seq |-> seq, ok |-> TRUE], doc_id, content, NULL, "root", 0, 1)

----------------------------------------------------------------------------
(* load_law_tree / _load_hierarchy_recursive *)

\* ORDER BY order_index; rows with equal order_index come in rowid order
RECURSIVE OrderBy(_)
OrderBy(rows) ==
    IF rows = {} THEN <<>>
    ELSE LET first == CHOOSE r \in rows : \A q \in rows : r.order_index < q.order_index \/ (r.order_index = q.order_index /\ r.id <= q.id)
         IN <<first>> \o OrderBy(rows \ {first})

\* result[title] = value on an insertion-ordered dict
DictSet(d, node) ==
    IF \E i \in 1..Len(d) : d[i].title = node.title
    THEN [i \in 1..Len(d) |-> IF d[i].title = node.title THEN node ELSE d[i]]
    ELSE Append(d, node)

RECURSIVE LoadRec(_, _)
RECURSIVE LoadChildren(_, _, _, _)
LoadChildren(table, children, i, result) ==
    IF i > Len(children) THEN result
    ELSE LET c == children[i]
             node == IF c.level = "clause" THEN Leaf(c.title, c.content) ELSE Branch(c.title, LoadRec(table, c.id))
         IN LoadChildren(table, children, i + 1, DictSet(result, node))

LoadRec(table, parent_id) == LoadChildren(table, OrderBy({r \in table : r.parent_id = parent_id}), 1, <<>>)

\* law_tree["content"][part_title] = ... for each part row, in order
RECURSIVE LoadParts(_, _, _, _)
LoadParts(table, parts, i, result) ==
    IF i > Len(parts) THEN result
    ELSE LoadParts(table, parts, i + 1, DictSet(result, Branch(parts[i].title, LoadRec(table, parts[i].id))))

\* Some(the returned law_tree["content"]), or None when the documents row is missing
load_law_tree(docs, table, doc_id) ==
    IF ~\E d \in docs : d.id = doc_id THEN None
    ELSE Some(LoadParts(table, OrderBy({r \in table : r.document_id = doc_id /\ r.level = "part"}), 1, <<>>))

----------------------------------------------------------------------------
(* The parser and the index builder, as far as the stores see them *)

\* parse_law_document: the tree a file with these bytes parses to
TreeOf(h) ==
    CASE h = 1 -> MkTree(1, 1, "articles", 1, 1)    \* PHAN > CHUONG > Dieu > Khoan
      [] h = 2 -> <<>>                              \* no PHAN heading: empty content
      [] h = 3 -> MkTree(1, 1, "sections", 0, 0)    \* a Muc without any Dieu
      [] OTHER -> MkTree(1, 1, "sections", 1, 1)    \* PHAN > CHUONG > Muc > Dieu > Khoan

\* build_article_index returns a node iff some clause is non-empty after strip()
ArticleBuilt(article) == \E i \in 1..Len(article.kids) : article.kids[i].text # ""

ItemBuilt(item) ==
    IF StartsWithMuc(item.title)
    THEN \E j \in 1..Len(item.kids) : ArticleBuilt(item.kids[j])
    ELSE item.title[1] = "Dieu" /\ ArticleBuilt(item)

ChapterBuilt(chapter) == \E k \in 1..Len(chapter.kids) : ItemBuilt(chapter.kids[k])

PartBuilt(part) == \E c \in 1..Len(part.kids) : ChapterBuilt(part.kids[c])

\* build_hierarchical_index raises ValueError iff all_part_nodes is empty
BuildRaises(content) == ~\E p \in 1..Len(content) : PartBuilt(content[p])

----------------------------------------------------------------------------
(* indexing.py: texts.  A string is kept as what it was made of (parts),  *)
(* the length of that, how many of its characters are kept (take) and     *)
(* whether "..." was appended (dots).                                      *)

Str(parts, len) == [parts |-> parts, len |-> len, take |-> len, dots |-> FALSE]

StrLen(t) == t.take + (IF t.dots THEN 3 ELSE 0)

\* len(title): "PHAN 1", "CHUONG 1", "Muc 1", "Dieu 1", "Khoan 1"
TitleLen(title) == CASE title[1] = "PHAN" -> 6 [] title[1] = "CHUONG" -> 8 [] title[1] = "Muc" -> 5 [] title[1] = "Dieu" -> 6 [] OTHER -> 7

\* len(clause_content.strip()): "alpha" is a clause of 160 characters, "gamma" one of 9000
TextLen(x) == CASE x = "alpha" -> 160 [] x = "gamma" -> 9000 [] OTHER -> 0

\* t[:n] + "..." if len(t) > n else t  (n is never inside an appended "...")
Cut(t, n) == IF StrLen(t) > n THEN [t EXCEPT !.take = IF n < t.take THEN n ELSE t.take, !.dots = TRUE] ELSE t

RECURSIVE SumLen(_, _)
SumLen(texts, i) == IF i > Len(texts) THEN 0 ELSE StrLen(texts[i]) + SumLen(texts, i + 1)

\* "\n".join(node_texts)
Join(texts) == Str(<<"join", texts>>, SumLen(texts, 1) + (IF Len(texts) = 0 THEN 0 ELSE Len(texts) - 1))

max_chars == 8000

FallbackChars == 300

MinSummaryLen == 10

\* Settings.llm: the two LLM classes of indexing.py
LlmClasses == {"LiteLLM", "OpenRouter"}

\* the completion service answers, answers with less than 10 characters, or is down
Services == {"up", "short", "down"}

\* Settings.llm.complete(prompt): LiteLLM raises when the service is down;
\* OpenRouter._call_api catches the exception and returns it as the text
complete(llm, prompt) ==
    CASE llm.service = "up" -> [raised |-> FALSE, text |-> Str(<<"reply", prompt>>, MinSummaryLen)]
      [] llm.service = "short" -> [raised |-> FALSE, text |-> Str(<<"reply", prompt>>, MinSummaryLen - 1)]
      [] llm.class = "OpenRouter" -> [raised |-> FALSE, text |-> Str(<<"Error calling OpenRouter API">>, 40)]
      [] OTHER -> [raised |-> TRUE, text |-> Str(<<>>, 0)]

\* the joined text, never cut
CombinedTextWhole(node_texts) == Join(node_texts)

\* combined_text as the prompt holds it: cut to max_chars, with "..." when cut
CombinedText(node_texts) == Cut(Join(node_texts), max_chars)

\* summarize_nodes with nodes non-empty; node_texts: the texts of the nodes
summarize_nodes(node_texts, llm) ==
    LET combined_text == CombinedText(node_texts)
        fallback_summary == Cut(combined_text, FallbackChars)
        summary_response == complete(llm, combined_text)
    IN IF summary_response.raised THEN fallback_summary
       ELSE IF StrLen(summary_response.text) < MinSummaryLen THEN fallback_summary
       ELSE summary_response.text

----------------------------------------------------------------------------
(* indexing.py: build_hierarchical_index.  A node is known by its path in *)
(* the tree; a handle (query engine) by the node it was built for and the *)
(* children it was built over.                                             *)

IndexNode(title, path, summary, level) ==
    [index_id |-> title, path |-> path, level |-> level,
     summary |-> summary, text |-> Str(<<title, ": ", summary>>, TitleLen(title) + 2 + StrLen(summary))]

\* VectorStoreIndex(over).as_query_engine(), built while the node at path is made
Handle(path, over) == [owner |-> path, over |-> over]

TextNode(path, text) == [path |-> path, level |-> "clause", text |-> text]

\* child_query_engines[title] = handle
DictPut(d, title, handle) == [k \in DOMAIN d \cup {title} |-> IF k = title THEN handle ELSE d[k]]

\* TextNode(text=f"{article_title} - {clause_key}: {clause_content.strip()}")
ClauseNodeText(article_title, clause) ==
    Str(<<article_title, " - ", clause.title, ": ", clause.text>>, TitleLen(article_title) + 3 + TitleLen(clause.title) + 2 + TextLen(clause.text))

\* every clause taken, blank or not
ClauseNodesAll(article) == [i \in 1..Len(article.kids) |-> i]

\* the clauses with clause_content and clause_content.strip()
ClauseNodes(article) == SelectSeq([i \in 1..Len(article.kids) |-> i], LAMBDA i : article.kids[i].text # "")

\* the summaries alone, without the titles
SummariesOf(nodes) == [n \in 1..Len(nodes) |-> nodes[n].summary]

\* [node.text for node in nodes]
TextsOf(nodes) == [n \in 1..Len(nodes) |-> nodes[n].text]

\* one summarize_nodes call, with its one Settings.llm.complete(summary_prompt):
\* the node the summary is for, the child text of the prompt the service
\* receives, and the summary returned
Request(path, level, node_texts, llm) ==
    [node |-> path, level |-> level, prompt |-> CombinedText(node_texts), summary |-> summarize_nodes(node_texts, llm)]

\* build_article_index: <<>> for (None, None), else <<node, handle, the
\* completion request made for the node>>
build_article_index(article, path, llm) ==
    LET clause_nodes == ClauseNodes(article)
        texts == [n \in 1..Len(clause_nodes) |-> ClauseNodeText(article.title, article.kids[clause_nodes[n]])]
    IN IF clause_nodes = <<>> THEN <<>>
       ELSE <<IndexNode(article.title, path, summarize_nodes(texts, llm), "article"),
              Handle(path, [n \in 1..Len(clause_nodes) |-> TextNode(Append(path, clause_nodes[n]), texts[n])]),
              Request(path, "article", texts, llm)>>

\* what the loop over a part, a chapter or a section takes a child for
ChildLevel(level, title) ==
    CASE level = "root" -> "part"
      [] level = "part" -> "chapter"
      [] level = "chapter" -> IF StartsWithMuc(title) THEN "section" ELSE IF title[1] = "Dieu" THEN "article" ELSE "skip"
      [] OTHER -> "article"

RECURSIVE BuildLoop(_, _, _, _, _, _)
\* the for loop over items.items() at one level: acc.nodes are the nodes
\* appended so far, acc.engines is child_query_engines, acc.calls are the
\* requests the completion service has received so far, in order
BuildLoop(items, path, level, llm, i, acc) ==
    IF i > Len(items) THEN acc
    ELSE LET item == items[i]
             here == Append(path, i)
             kind == ChildLevel(level, item.title)
         IN IF kind = "skip" THEN BuildLoop(items, path, level, llm, i + 1, acc)
            ELSE IF kind = "article"
            THEN LET built == build_article_index(item, here, llm)
                 IN IF built = <<>> THEN BuildLoop(items, path, level, llm, i + 1, acc)
                    ELSE BuildLoop(items, path, level, llm, i + 1,
                                   [nodes |-> Append(acc.nodes, built[1]), engines |-> DictPut(acc.engines, item.title, built[2]),
                                    calls |-> Append(acc.calls, built[3])])
            ELSE LET sub == BuildLoop(item.kids, here, kind, llm, 1, [nodes |-> <<>>, engines |-> acc.engines, calls |-> acc.calls])
                 IN IF sub.nodes = <<>> THEN BuildLoop(items, path, level, llm, i + 1, [nodes |-> acc.nodes, engines |-> sub.engines, calls |-> sub.calls])
                    ELSE BuildLoop(items, path, level, llm, i + 1,
                                   [nodes |-> Append(acc.nodes, IndexNode(item.title, here, summarize_nodes(TextsOf(sub.nodes), llm), kind)),
                                    engines |-> DictPut(sub.engines, item.title, Handle(here, sub.nodes)),
                                    calls |-> Append(sub.calls, Request(here, kind, TextsOf(sub.nodes), llm))])

\* raised: ValueError, all_part_nodes is empty; else top_index is built over
\* all_part_nodes and child_query_engines is returned with it; calls: what the
\* completion service received during the run
build_hierarchical_index(content, llm) ==
    LET all == BuildLoop(content, <<>>, "root", llm, 1, [nodes |-> <<>>, engines |-> <<>>, calls |-> <<>>])
    IN [raised |-> all.nodes = <<>>, all_part_nodes |-> all.nodes, child_query_engines |-> all.engines, calls |-> all.calls]

----------------------------------------------------------------------------
(* DatabaseManager: reads *)

\* title: the caller's title for the path, written once by the INSERT
DocRow(id, path, hash) == [id |-> id, file_path |-> path, file_hash |-> hash, title |-> <<"title", path>>]

StatusRow(p, i, e) == [parsing_done |-> p, indexing_done |-> i, embeddings_done |-> e]

\* the row's first flag alone
is_cache_complete_parsing_only(status, doc_id) == status[doc_id] # NoRow /\ status[doc_id].parsing_done

is_cache_complete(status, doc_id) ==
    IF status[doc_id] = NoRow THEN FALSE
    ELSE status[doc_id].parsing_done /\ status[doc_id].indexing_done /\ status[doc_id].embeddings_done

\* the files handed back without being unpickled
load_indices_unchecked(objs, doc_id) == <<objs[<<doc_id, "top_index">>], objs[<<doc_id, "engines">>]>>

\* pickle.load of a truncated file raises, which load_indices catches
load_indices(objs, doc_id) ==
    IF objs[<<doc_id, "top_index">>] # NoFile /\ objs[<<doc_id, "engines">>] # NoFile
    THEN IF objs[<<doc_id, "top_index">>] = Partial \/ objs[<<doc_id, "engines">>] = Partial
         THEN None
         ELSE <<objs[<<doc_id, "top_index">>], objs[<<doc_id, "engines">>]>>
    ELSE None

Called(name, doc, ret) == [name |-> name, doc |-> doc, ret |-> ret]

----------------------------------------------------------------------------
(* DatabaseManager: writes.  Each is the whole method: what it commits in  *)
(* SQLite, ChromaDB and the objects directory, and what it returns.        *)

\* the comparison inverted
HashMatchesInverted(cached_hash, file_hash) == cached_hash # file_hash

\* if cached_hash == file_hash
HashMatches(cached_hash, file_hash) == cached_hash = file_hash

\* the DELETE FROM hierarchy left out
RegisterInvalidateStatusOnly(doc_id) ==
    /\ cache_status' = [cache_status EXCEPT ![doc_id] = NoRow]
    /\ hierarchy' = hierarchy

\* DELETE FROM cache_status / hierarchy WHERE document_id = doc_id
RegisterInvalidate(doc_id) ==
    /\ cache_status' = [cache_status EXCEPT ![doc_id] = NoRow]
    /\ hierarchy' = {r \in hierarchy : r.document_id # doc_id}

\* INTEGER PRIMARY KEY without AUTOINCREMENT: one more than the largest id in the table
NextRowid(docs, seq) == IF docs = {} THEN 1 ELSE (CHOOSE i \in {d.id : d \in docs} : \A d \in docs : d.id <= i) + 1

\* INTEGER PRIMARY KEY AUTOINCREMENT: one more than the largest id ever issued,
\* which sqlite_sequence keeps when rows are deleted
NextId(docs, seq) == seq + 1

register_document(file_path) ==
    LET file_hash == files[file_path]
        result == {d \in documents : d.file_path = file_path}
    IN IF result # {}
       THEN LET row == CHOOSE d \in result : TRUE
            IN IF HashMatches(row.file_hash, file_hash)
               THEN /\ UNCHANGED dbVars
                    /\ call' = Called("register_document", row.id, "unchanged")
               ELSE /\ documents' = (documents \ {row}) \cup {DocRow(row.id, file_path, file_hash)}
                    /\ RegisterInvalidate(row.id)
                    /\ UNCHANGED <<docSeq, hierSeq, chroma, objects>>
                    /\ call' = Called("register_document", row.id, "changed")
       ELSE /\ docSeq + 1 \in DOMAIN cache_status   \* the model's cap on AUTOINCREMENT
            /\ documents' = documents \cup {DocRow(NextId(documents, docSeq), file_path, file_hash)}
            /\ docSeq' = docSeq + 1
            /\ UNCHANGED <<hierarchy, hierSeq, cache_status, chroma, objects>>
            /\ call' = Called("register_document", NextId(documents, docSeq), "new")

\* the cache_status row written and committed before the rows are inserted
save_law_tree_status_first(doc_id, content) ==
    LET saved == SaveRec([rows |-> {}, seq |-> hierSeq, ok |-> TRUE], doc_id, content, NULL, "root", 0, 1)
    IN /\ hierarchy' = IF saved.ok THEN hierarchy \cup saved.rows ELSE hierarchy
       /\ hierSeq' = IF saved.ok THEN saved.seq ELSE hierSeq
       /\ cache_status' = [cache_status EXCEPT ![doc_id] = [parsing_done |-> TRUE, indexing_done |-> FALSE, embeddings_done |-> FALSE]]
       /\ call' = [name |-> "save_law_tree", doc |-> doc_id, ret |-> IF saved.ok THEN "ok" ELSE "raise"]
       /\ UNCHANGED <<documents, docSeq, chroma, objects>>

\* INSERT OR REPLACE INTO cache_status (document_id, parsing_done, last_build):
\* the columns not named take their defaults
ParsedRow(old) == StatusRow(TRUE, FALSE, FALSE)

save_law_tree(doc_id, content) ==
    LET saved == _save_hierarchy_recursive(doc_id, content, hierSeq)
    IN /\ IF saved.ok
          THEN /\ hierarchy' = hierarchy \cup saved.rows
               /\ hierSeq' = saved.seq
               /\ cache_status' = [cache_status EXCEPT ![doc_id] = ParsedRow(@)]
               /\ call' = Called("save_law_tree", doc_id, "ok")
          ELSE \* the exception leaves the transaction uncommitted
               /\ UNCHANGED <<hierarchy, hierSeq, cache_status>>
               /\ call' = Called("save_law_tree", doc_id, "raise")
       /\ UNCHANGED <<documents, docSeq, chroma, objects>>

\* embeddings_done left out of the UPDATE
IndexedRowIndexingOnly(old) == IF old = NoRow THEN NoRow ELSE StatusRow(old.parsing_done, TRUE, old.embeddings_done)

\* the row written whether or not one exists
IndexedRowUpsert(old) == StatusRow(TRUE, TRUE, TRUE)

\* UPDATE cache_status SET indexing_done = TRUE, embeddings_done = TRUE WHERE document_id = ?
IndexedRow(old) == IF old = NoRow THEN NoRow ELSE StatusRow(old.parsing_done, TRUE, TRUE)

IndexOutcomes == {"ok", "fail_top", "fail_engines"}

\* build: the hash of the file the pickled index was built from.  open(path, "wb")
\* truncates; a dump that raises leaves a truncated file, and the except clause
\* swallows the exception before the UPDATE
save_indices(doc_id, build, outcome) ==
    /\ objects' = [objects EXCEPT ![<<doc_id, "top_index">>] = IF outcome = "fail_top" THEN Partial ELSE Pickle(build),
                                  ![<<doc_id, "engines">>] = IF outcome = "fail_top" THEN @ ELSE IF outcome = "fail_engines" THEN Partial ELSE Pickle(build)]
    /\ cache_status' = IF outcome = "ok" THEN [cache_status EXCEPT ![doc_id] = IndexedRow(@)] ELSE cache_status
    /\ UNCHANGED <<documents, docSeq, hierarchy, hierSeq, chroma>>
    /\ call' = Called("save_indices", doc_id, outcome)

\* fail_delete: delete_collection raised on an existing collection (swallowed),
\* so create_collection raises; fail_create: create_collection raised after the
\* delete; fail_add: collection.add raised; fail_update: the UPDATE of hierarchy
\* raised after the add
EmbedOutcomes == {"ok", "fail_delete", "fail_create", "fail_add", "fail_update"}

RecordIds(records) == {records[i].id : i \in 1..Len(records)}

\* the records added to the collection that is there, no delete_collection before
save_embeddings_no_delete(doc_id, records, outcome) ==
    /\ chroma' = [chroma EXCEPT ![doc_id] = IF @ = NoColl THEN [ids |-> RecordIds(records)] ELSE [ids |-> @.ids \cup RecordIds(records)]]
    /\ UNCHANGED <<hierarchy, documents, docSeq, hierSeq, cache_status, objects>>
    /\ call' = [name |-> "save_embeddings", doc |-> doc_id, ret |-> outcome]

\* a handler that lets the exception through
CatchesNothing(clause) == FALSE

\* the exceptions a ChromaDB or SQLite call raises derive from Exception: a bare
\* "except:" and "except Exception" both catch them
Catches(clause) == clause \in {"bare", "Exception"}

\* records: a sequence of [id, hierarchy_id] (hierarchy_id = NULL: the
\* metadata has no "hierarchy_id")
save_embeddings(doc_id, records, outcome) ==
    /\ chroma' = [chroma EXCEPT ![doc_id] = CASE outcome \in {"ok", "fail_update"} -> Coll(RecordIds(records))
                                              [] outcome = "fail_add" -> Coll({})
                                              [] outcome = "fail_delete" -> @
                                              [] OTHER -> NoColl]
    /\ hierarchy' = IF outcome = "ok"
                    THEN {IF \E i \in 1..Len(records) : records[i].hierarchy_id = r.id
                          THEN [r EXCEPT !.vector_collection = doc_id] ELSE r : r \in hierarchy}
                    ELSE hierarchy
    /\ UNCHANGED <<documents, docSeq, hierSeq, cache_status, objects>>
    /\ call' = Called("save_embeddings", doc_id, IF outcome = "ok" \/ (Catches("Exception") /\ (outcome = "fail_delete" => Catches("bare"))) THEN outcome ELSE "raised")

\* the documents row deleted with the rest
clear_document_cache_with_document(doc_id, outcome) ==
    /\ chroma' = [c \in DOMAIN chroma |-> IF c = doc_id THEN NoColl ELSE chroma[c]]
    /\ hierarchy' = {r \in hierarchy : r.document_id # doc_id}
    /\ cache_status' = [cache_status EXCEPT ![doc_id] = NoRow]
    /\ objects' = [f \in DOMAIN objects |-> IF f[1] = doc_id THEN NoFile ELSE objects[f]]
    /\ documents' = {row \in documents : row.id # doc_id}
    /\ UNCHANGED <<docSeq, hierSeq>>
    /\ call' = [name |-> "clear_document_cache", doc |-> doc_id, ret |-> "done"]

\* SELECT DISTINCT vector_collection FROM hierarchy WHERE document_id = ? AND vector_collection IS NOT NULL
ClearCollections(doc_id) == {r.vector_collection : r \in {q \in hierarchy : q.document_id = doc_id /\ q.vector_collection # NULL}}

ClearOutcomes == {"ok", "fail_delete"}

\* fail_delete: delete_collection raises.  The except clause around it passes
\* and the method goes on; an exception that left the method would leave the
\* transaction uncommitted and the files in place.
clear_document_cache(doc_id, outcome) ==
    IF outcome = "fail_delete" /\ ~Catches("bare")
    THEN /\ UNCHANGED dbVars
         /\ call' = Called("clear_document_cache", doc_id, "raised")
    ELSE /\ chroma' = [c \in DOMAIN chroma |-> IF c \in ClearCollections(doc_id) /\ outcome = "ok" THEN NoColl ELSE chroma[c]]
         /\ hierarchy' = {r \in hierarchy : r.document_id # doc_id}
         /\ cache_status' = [cache_status EXCEPT ![doc_id] = NoRow]
         /\ objects' = [f \in DOMAIN objects |-> IF f[1] = doc_id THEN NoFile ELSE objects[f]]
         /\ UNCHANGED <<documents, docSeq, hierSeq>>
         /\ call' = Called("clear_document_cache", doc_id, "done")

\* SUM(CASE WHEN flag THEN 1 ELSE 0 END) FROM cache_status: NULL over no rows
SumFlag(status, f) ==
    IF \A d \in DOMAIN status : status[d] = NoRow THEN None
    ELSE Some(Cardinality({d \in DOMAIN status : status[d] # NoRow /\ status[d][f]}))

\* st_size of a file, in units: a truncated pickle is shorter than a whole one
FileSize(file) == IF file = NoFile THEN 0 ELSE IF file = Partial THEN 1 ELSE 2

RECURSIVE SumOver(_, _)
SumOver(f, S) == IF S = {} THEN 0 ELSE LET x == CHOOSE y \in S : TRUE IN f[x] + SumOver(f, S \ {x})

\* statistics that fail on a store without entries
get_database_stats_strict ==
    /\ UNCHANGED dbVars
    /\ call' = Called("get_database_stats", NULL, [raised |-> SumFlag(cache_status, "parsing_done") = None])

\* four SELECTs, list_collections and count, and the sizes of the files; the
\* connection is closed without a write
get_database_stats ==
    /\ UNCHANGED dbVars
    /\ call' = Called("get_database_stats", NULL,
                       [raised |-> FALSE,
                        documents |-> Cardinality(documents),
                        hierarchy |-> [l \in {r.level : r \in hierarchy} |-> Cardinality({r \in hierarchy : r.level = l})],
                        cache_status |-> [parsed |-> SumFlag(cache_status, "parsing_done"), indexed |-> SumFlag(cache_status, "indexing_done"), embedded |-> SumFlag(cache_status, "embeddings_done")],
                        vectors |-> [collections |-> Cardinality({d \in DOMAIN chroma : chroma[d] # NoColl}),
                                     total_vectors |-> SumOver([d \in DOMAIN chroma |-> IF chroma[d] = NoColl THEN 0 ELSE Cardinality(chroma[d].ids)], DOMAIN chroma)],
                        objects |-> SumOver([f \in DOMAIN objects |-> FileSize(objects[f])], DOMAIN objects)])

\* a delete_collection call can fail only where one is made
CanClear(doc_id, outcome) == outcome = "fail_delete" => ClearCollections(doc_id) # {}

SearchOutcomes == {"ok", "fail_query"}

TopKs == {1, 2}

\* the ids of a collection, nearest first, at most top_k of them
QueryIds(ids, top_k) ==
    LET all == IF ids = {"v1", "v2"} THEN <<"v1", "v2">> ELSE IF ids = {} THEN <<>> ELSE <<CHOOSE v \in ids : TRUE>>
    IN SubSeq(all, 1, IF Len(all) < top_k THEN Len(all) ELSE top_k)

\* get_collection raises when the document has no collection; fail_query:
\* collection.query raises.  The except clause prints and returns [].
search_vectors(doc_id, top_k, outcome) ==
    /\ UNCHANGED dbVars
    /\ call' = Called("search_vectors", doc_id,
                       IF chroma[doc_id] = NoColl \/ outcome = "fail_query"
                       THEN IF Catches("Exception") THEN [raised |-> FALSE, results |-> <<>>] ELSE [raised |-> TRUE, results |-> <<>>]
                       ELSE [raised |-> FALSE, results |-> QueryIds(chroma[doc_id].ids, top_k)])

----------------------------------------------------------------------------
(* Initial state: DatabaseManager() on an empty data/db directory *)

\* before: history, the stores as they were when build_fresh_data was entered
ProcIdle == [doc_id |-> NULL, law_tree |-> None, path |-> "none", changed |-> FALSE, edited |-> FALSE, before |-> None]

\* two processes, each with its own DatabaseManager on the same data/db
Procs == {1, 2}

RegIdle == [pc |-> "idle", file_hash |-> NULL, result |-> None, ret |-> NULL]

\* setup_models as main calls it, with the service answering
LiteLLMUp == [class |-> "LiteLLM", service |-> "up"]

Stores == [hierarchy |-> hierarchy, cache_status |-> cache_status, chroma |-> chroma, objects |-> objects]

InitDb ==
    /\ documents = {}
    /\ docSeq = 0
    /\ hierarchy = {}
    /\ hierSeq = 0
    /\ cache_status = [d \in DocIds |-> NoRow]
    /\ chroma = [d \in DocIds |-> NoColl]
    /\ objects = [f \in DocIds \X Kinds |-> NoFile]

InitProcs ==
    /\ mainPc = "idle"
    /\ mainLocals = ProcIdle
    /\ cliPc = "idle"
    /\ cliLocals = ProcIdle
    /\ call = Called("init", NULL, "none")
    /\ everBuilt = FALSE

Init ==
    /\ files = [p \in Paths |-> 1]
    /\ InitDb
    /\ InitProcs
    /\ inputTree = <<>>
    /\ treePc = "off"
    /\ regs = [i \in Procs |-> RegIdle]
    /\ settings = LiteLLMUp

procVars == <<mainPc, mainLocals, cliPc, cliLocals, everBuilt>>

treeVars == <<inputTree, treePc>>

\* the model stops inserting when the rowid counter would pass MaxHierId
CanSave(doc_id, content) == _save_hierarchy_recursive(doc_id, content, hierSeq).seq <= MaxHierId

----------------------------------------------------------------------------
(* The file on disk is edited *)

EditFile(p, h) ==
    /\ h # files[p]
    /\ files' = [files EXCEPT ![p] = h]
    /\ everBuilt' = IF p = MainPath THEN FALSE ELSE everBuilt
    /\ mainLocals' = IF p = MainPath /\ mainPc # "idle" THEN [mainLocals EXCEPT !.edited = TRUE] ELSE mainLocals
    /\ UNCHANGED <<dbVars, mainPc, cliPc, cliLocals, call, treeVars, regs, settings>>

----------------------------------------------------------------------------
(* DatabaseManager's methods called directly, in any order *)

ApiRegister(p) ==
    /\ register_document(p)
    /\ UNCHANGED <<files, procVars, treeVars, regs, settings>>

ApiSaveLawTree(d, h) ==
    /\ CanSave(d, TreeOf(h))
    /\ save_law_tree(d, TreeOf(h))
    /\ UNCHANGED <<files, procVars, treeVars, regs, settings>>

VectorIds == {"v1", "v2"}

\* one record, with or without a hierarchy_id in its metadata
EmbedInputs == {<<[id |-> v, hierarchy_id |-> NULL]>> : v \in VectorIds} \cup {<<[id |-> "v1", hierarchy_id |-> r.id]>> : r \in {q \in hierarchy : q.level \in {"article", "clause"}}}

ApiSaveEmbeddings(d, outcome) ==
    /\ outcome = "fail_delete" => chroma[d] # NoColl
    /\ \E records \in EmbedInputs : save_embeddings(d, records, outcome)
    /\ UNCHANGED <<files, procVars, treeVars, regs, settings>>

\* the files whose tree build_hierarchical_index returns an index for
Builds == {h \in Hashes : ~BuildRaises(TreeOf(h))}

ApiSaveIndices(d, h, outcome) ==
    /\ save_indices(d, h, outcome)
    /\ UNCHANGED <<files, procVars, treeVars, regs, settings>>

ApiClear(d, outcome) ==
    /\ CanClear(d, outcome)
    /\ clear_document_cache(d, outcome)
    /\ UNCHANGED <<files, procVars, treeVars, regs, settings>>

ApiSearchVectors(d, top_k, outcome) ==
    /\ search_vectors(d, top_k, outcome)
    /\ UNCHANGED <<files, procVars, treeVars, regs, settings>>

ApiStats ==
    /\ get_database_stats
    /\ UNCHANGED <<files, procVars, treeVars, regs, settings>>

ApiNext ==
    \/ \E p \in Paths : ApiRegister(p)
    \/ \E p \in Paths, h \in Hashes : EditFile(p, h)
    \/ \E d \in DocIds, h \in Hashes : ApiSaveLawTree(d, h)
    \/ \E d \in DocIds, o \in EmbedOutcomes : ApiSaveEmbeddings(d, o)
    \/ \E d \in DocIds, h \in Builds, o \in IndexOutcomes : ApiSaveIndices(d, h, o)
    \/ \E d \in DocIds, o \in ClearOutcomes : ApiClear(d, o)
    \/ \E d \in DocIds, k \in TopKs, o \in SearchOutcomes : ApiSearchVectors(d, k, o)
    \/ ApiStats

Spec == Init /\ [][ApiNext]_vars

----------------------------------------------------------------------------
(* main(): register, then the fast path (load) or build_fresh_data.  Each  *)
(* DatabaseManager call is its own transaction, so each is one step.       *)

MainRegister ==
    /\ mainPc = "idle"
    /\ register_document(MainPath)
    /\ mainPc' = "check"
    /\ mainLocals' = [ProcIdle EXCEPT !.doc_id = call'.doc, !.changed = (call'.ret = "changed")]
    /\ UNCHANGED <<files, cliPc, cliLocals, everBuilt, treeVars, regs, settings>>

MainCheck ==
    /\ mainPc = "check"
    /\ mainPc' = IF is_cache_complete(cache_status, mainLocals.doc_id) THEN "load_tree" ELSE "parse"
    /\ UNCHANGED <<files, dbVars, mainLocals, cliPc, cliLocals, call, everBuilt, treeVars, regs, settings>>

MainLoadTree ==
    /\ mainPc = "load_tree"
    /\ mainLocals' = [mainLocals EXCEPT !.law_tree = load_law_tree(documents, hierarchy, mainLocals.doc_id)]
    /\ mainPc' = "load_indices"
    /\ UNCHANGED <<files, dbVars, cliPc, cliLocals, call, everBuilt, treeVars, regs, settings>>

\* if law_tree and cached_indices: a loaded law_tree is a dict with two keys, so truthy
MainLoadIndices ==
    /\ mainPc = "load_indices"
    /\ IF mainLocals.law_tree # None /\ load_indices(objects, mainLocals.doc_id) # None
       THEN /\ mainPc' = "ready"
            /\ mainLocals' = [mainLocals EXCEPT !.path = "load"]
       ELSE /\ mainPc' = "parse"
            /\ UNCHANGED mainLocals
    /\ UNCHANGED <<files, dbVars, cliPc, cliLocals, call, everBuilt, treeVars, regs, settings>>

\* a parsed law_tree is kept as the hash of the file it was parsed from
MainParse ==
    /\ mainPc = "parse"
    /\ mainLocals' = [mainLocals EXCEPT !.law_tree = Some(files[MainPath]), !.path = "build", !.before = Some(Stores)]
    /\ mainPc' = "save_tree"
    /\ UNCHANGED <<files, dbVars, cliPc, cliLocals, call, everBuilt, treeVars, regs, settings>>

\* an exception of save_law_tree is not caught in main: the process ends
MainSaveTree ==
    /\ mainPc = "save_tree"
    /\ CanSave(mainLocals.doc_id, TreeOf(mainLocals.law_tree[1]))
    /\ save_law_tree(mainLocals.doc_id, TreeOf(mainLocals.law_tree[1]))
    /\ mainPc' = IF call'.ret = "ok" THEN "build" ELSE "idle"
    /\ UNCHANGED <<files, mainLocals, cliPc, cliLocals, everBuilt, treeVars, regs, settings>>

MainBuild ==
    /\ mainPc = "build"
    /\ mainPc' = IF BuildRaises(TreeOf(mainLocals.law_tree[1])) THEN "idle" ELSE "save_indices"
    /\ UNCHANGED <<files, dbVars, mainLocals, cliPc, cliLocals, call, everBuilt, treeVars, regs, settings>>

MainSaveIndices(outcome) ==
    /\ mainPc = "save_indices"
    /\ save_indices(mainLocals.doc_id, mainLocals.law_tree[1], outcome)
    /\ mainPc' = "ready"
    /\ everBuilt' = (outcome = "ok" /\ ~mainLocals.edited)
    /\ UNCHANGED <<files, mainLocals, cliPc, cliLocals, treeVars, regs, settings>>

\* the queries run and the process exits; or it is killed at any point
MainExit ==
    /\ mainPc # "idle"
    /\ mainPc' = "idle"
    /\ mainLocals' = ProcIdle
    /\ UNCHANGED <<files, dbVars, cliPc, cliLocals, call, everBuilt, treeVars, regs, settings>>

MainNext ==
    \/ MainRegister
    \/ MainCheck
    \/ MainLoadTree
    \/ MainLoadIndices
    \/ MainParse
    \/ MainSaveTree
    \/ MainBuild
    \/ \E o \in IndexOutcomes : MainSaveIndices(o)
    \/ MainExit

----------------------------------------------------------------------------
(* db_cli: clear --doc-id and rebuild --doc-id *)

CmdClear(d, outcome) ==
    /\ cliPc = "idle"
    /\ CanClear(d, outcome)
    /\ clear_document_cache(d, outcome)
    /\ everBuilt' = FALSE
    /\ UNCHANGED <<files, mainPc, mainLocals, cliPc, cliLocals, treeVars, regs, settings>>

\* SELECT file_path FROM documents WHERE id = ?; return when there is none
RebuildStart(d) ==
    /\ cliPc = "idle"
    /\ \E row \in documents : row.id = d
    /\ cliPc' = "clear"
    /\ cliLocals' = [ProcIdle EXCEPT !.doc_id = d]
    /\ UNCHANGED <<files, dbVars, mainPc, mainLocals, call, everBuilt, treeVars, regs, settings>>

RebuildClear(outcome) ==
    /\ cliPc = "clear"
    /\ CanClear(cliLocals.doc_id, outcome)
    /\ clear_document_cache(cliLocals.doc_id, outcome)
    /\ cliPc' = IF call'.ret = "raised" THEN "idle" ELSE "parse"
    /\ cliLocals' = IF call'.ret = "raised" THEN ProcIdle ELSE cliLocals
    /\ everBuilt' = IF call'.ret = "raised" THEN everBuilt ELSE FALSE
    /\ UNCHANGED <<files, mainPc, mainLocals, treeVars, regs, settings>>

RebuildParse ==
    /\ cliPc = "parse"
    /\ cliLocals' = [cliLocals EXCEPT !.law_tree = Some(files[MainPath]), !.path = "build"]
    /\ cliPc' = "save_tree"
    /\ UNCHANGED <<files, dbVars, mainPc, mainLocals, call, everBuilt, treeVars, regs, settings>>

\* inside try/except: an exception ends the command
RebuildSaveTree ==
    /\ cliPc = "save_tree"
    /\ CanSave(cliLocals.doc_id, TreeOf(cliLocals.law_tree[1]))
    /\ save_law_tree(cliLocals.doc_id, TreeOf(cliLocals.law_tree[1]))
    /\ cliPc' = IF call'.ret = "ok" THEN "build" ELSE "idle"
    /\ cliLocals' = IF call'.ret = "ok" THEN cliLocals ELSE ProcIdle
    /\ UNCHANGED <<files, mainPc, mainLocals, everBuilt, treeVars, regs, settings>>

RebuildBuild ==
    /\ cliPc = "build"
    /\ cliPc' = IF BuildRaises(TreeOf(cliLocals.law_tree[1])) THEN "idle" ELSE "save_indices"
    /\ cliLocals' = IF BuildRaises(TreeOf(cliLocals.law_tree[1])) THEN ProcIdle ELSE cliLocals
    /\ UNCHANGED <<files, dbVars, mainPc, mainLocals, call, everBuilt, treeVars, regs, settings>>

RebuildSaveIndices(outcome) ==
    /\ cliPc = "save_indices"
    /\ save_indices(cliLocals.doc_id, cliLocals.law_tree[1], outcome)
    /\ cliPc' = "idle"
    /\ cliLocals' = ProcIdle
    /\ UNCHANGED <<files, mainPc, mainLocals, everBuilt, treeVars, regs, settings>>

CliKilled ==
    /\ cliPc # "idle"
    /\ cliPc' = "idle"
    /\ cliLocals' = ProcIdle
    /\ UNCHANGED <<files, dbVars, mainPc, mainLocals, call, everBuilt, treeVars, regs, settings>>

CliNext ==
    \/ \E d \in DocIds, o \in ClearOutcomes : CmdClear(d, o)
    \/ \E d \in DocIds : RebuildStart(d)
    \/ \E o \in ClearOutcomes : RebuildClear(o)
    \/ RebuildParse
    \/ RebuildSaveTree
    \/ RebuildBuild
    \/ \E o \in IndexOutcomes : RebuildSaveIndices(o)
    \/ CliKilled

Edit == \E p \in Paths, h \in Hashes : EditFile(p, h)

\* main alone, run after run, while the file may be edited
StartupNext == MainNext \/ Edit

StartupSpec == Init /\ [][StartupNext]_vars

\* main and the db_cli commands, interleaved
PipelineNext == MainNext \/ CliNext \/ Edit

PipelineSpec == Init /\ [][PipelineNext]_vars

----------------------------------------------------------------------------
(* Round trip of the hierarchy store on a registered document without rows *)

InitTree ==
    /\ files = [p \in Paths |-> 1]
    /\ InitDb
    /\ InitProcs
    /\ inputTree \in TreeFamily
    /\ treePc = "register"
    /\ regs = [i \in Procs |-> RegIdle]
    /\ settings = LiteLLMUp

TreeRegister ==
    /\ treePc = "register"
    /\ register_document(MainPath)
    /\ treePc' = "save"
    /\ UNCHANGED <<files, procVars, inputTree, regs, settings>>

TreeSave ==
    /\ treePc = "save"
    /\ save_law_tree(call.doc, inputTree)
    /\ treePc' = IF call'.ret = "ok" THEN "load" ELSE "raised"
    /\ UNCHANGED <<files, procVars, inputTree, regs, settings>>

TreeLoad ==
    /\ treePc = "load"
    /\ call' = Called("load_law_tree", call.doc, load_law_tree(documents, hierarchy, call.doc))
    /\ treePc' = "loaded"
    /\ UNCHANGED <<files, dbVars, procVars, inputTree, regs, settings>>

TreeNext == TreeRegister \/ TreeSave \/ TreeLoad

TreeSpec == InitTree /\ [][TreeNext]_vars

----------------------------------------------------------------------------
(* register_document called by two processes at once.  The SELECT runs    *)
(* outside any transaction; the first INSERT or UPDATE takes the write    *)
(* lock, which is held until the commit, so the writes of one call are    *)
(* one step.                                                              *)

regRest == <<hierSeq, chroma, objects, procVars, call, treeVars>>

\* no UNIQUE on documents.file_path
NoUniqueConstraint(docs, file_path) == FALSE

\* file_path TEXT UNIQUE NOT NULL: the INSERT raises IntegrityError
UniqueViolation(docs, file_path) == \E row \in docs : row.file_path = file_path

\* file_hash = self.get_file_hash(file_path)
RegHash(i) ==
    /\ regs[i].pc = "idle"
    /\ regs' = [regs EXCEPT ![i] = [RegIdle EXCEPT !.pc = "select", !.file_hash = files[MainPath]]]
    /\ UNCHANGED <<files, dbVars, procVars, call, treeVars, settings>>

\* SELECT id, file_hash FROM documents WHERE file_path = ?
RegSelect(i) ==
    /\ regs[i].pc = "select"
    /\ LET found == {row \in documents : row.file_path = MainPath}
       IN regs' = [regs EXCEPT ![i].pc = "write",
                               ![i].result = IF found = {} THEN None ELSE Some(CHOOSE row \in found : TRUE)]
    /\ UNCHANGED <<files, dbVars, procVars, call, treeVars, settings>>

\* the branch taken on the row the SELECT returned, up to the commit
RegWrite(i) ==
    /\ regs[i].pc = "write"
    /\ IF regs[i].result # None
       THEN LET row == regs[i].result[1]
            IN IF HashMatches(row.file_hash, regs[i].file_hash)
               THEN /\ UNCHANGED <<documents, docSeq, hierarchy, cache_status>>
                    /\ regs' = [regs EXCEPT ![i].pc = "returned", ![i].ret = row.id]
               ELSE /\ documents' = {IF d.id = row.id THEN [d EXCEPT !.file_hash = regs[i].file_hash] ELSE d : d \in documents}
                    /\ RegisterInvalidate(row.id)
                    /\ UNCHANGED docSeq
                    /\ regs' = [regs EXCEPT ![i].pc = "returned", ![i].ret = row.id]
       ELSE IF UniqueViolation(documents, MainPath)
            THEN /\ UNCHANGED <<documents, docSeq, hierarchy, cache_status>>
                 /\ regs' = [regs EXCEPT ![i].pc = "raised"]
            ELSE /\ documents' = documents \cup {DocRow(docSeq + 1, MainPath, regs[i].file_hash)}
                 /\ docSeq' = docSeq + 1
                 /\ UNCHANGED <<hierarchy, cache_status>>
                 /\ regs' = [regs EXCEPT ![i].pc = "returned", ![i].ret = docSeq + 1]
    /\ UNCHANGED <<files, regRest, settings>>

\* the caller goes on; the next call starts from scratch
RegDone(i) ==
    /\ regs[i].pc \in {"returned", "raised"}
    /\ regs' = [regs EXCEPT ![i] = RegIdle]
    /\ UNCHANGED <<files, dbVars, procVars, call, treeVars, settings>>

RegEdit ==
    /\ \E h \in Hashes : h # files[MainPath] /\ files' = [files EXCEPT ![MainPath] = h]
    /\ UNCHANGED <<dbVars, procVars, call, treeVars, regs, settings>>

RegNext ==
    \/ \E i \in Procs : RegHash(i)
    \/ \E i \in Procs : RegSelect(i)
    \/ \E i \in Procs : RegWrite(i)
    \/ \E i \in Procs : RegDone(i)
    \/ RegEdit

RegSpec == Init /\ [][RegNext]_vars

----------------------------------------------------------------------------
(* setup_models, then build_hierarchical_index on a parsed tree *)

InitBuild ==
    /\ files = [p \in Paths |-> 1]
    /\ InitDb
    /\ InitProcs
    /\ inputTree \in TreeFamily
    /\ treePc = "setup"
    /\ regs = [i \in Procs |-> RegIdle]
    /\ settings = [class |-> "none", service |-> "up"]

\* Settings.llm = LiteLLM(...) or OpenRouter(...); the service is up or not for the whole build
SetupModels(class, service) ==
    /\ treePc = "setup"
    /\ settings' = [class |-> class, service |-> service]
    /\ treePc' = "build"
    /\ UNCHANGED <<files, dbVars, procVars, call, inputTree, regs>>

BuildIndex ==
    /\ treePc = "build"
    /\ call' = Called("build_hierarchical_index", NULL, build_hierarchical_index(inputTree, settings))
    /\ treePc' = "built"
    /\ UNCHANGED <<files, dbVars, procVars, inputTree, regs, settings>>

BuildNext ==
    \/ \E class \in LlmClasses, service \in Services : SetupModels(class, service)
    \/ BuildIndex

BuildSpec == InitBuild /\ [][BuildNext]_vars

----------------------------------------------------------------------------
(* Properties *)

HasRows(d) == \E r \in hierarchy : r.document_id = d

HasArtifacts(d) == objects[<<d, "top_index">>] # NoFile /\ objects[<<d, "engines">>] # NoFile

NoArtifacts(d) == objects[<<d, "top_index">>] = NoFile /\ objects[<<d, "engines">>] = NoFile

Flag(status, d, f) == status[d] # NoRow /\ status[d][f]

FlagNames == {"parsing_done", "indexing_done", "embeddings_done"}

BuildPcs == {"parse", "save_tree", "build", "save_indices"}

\* C1: round trip of the hierarchy store: after save_law_tree(D, T) on a
\* document without rows, load_law_tree(D) returns the content mapping T
\* (same nesting, same titles in the same order, same clause texts).
C1_RoundTrip == treePc = "loaded" => call.ret = Some(inputTree)

\* C2: cache reuse across runs: once a run of main has parsed, built and
\* written both stores, and while the file stays as it was, the cache is
\* complete for the document and main is never again on the build path
\* (parse, save_law_tree, build_hierarchical_index, save_indices): every
\* later run goes from the check to load_law_tree and load_indices.
C2_CacheReuse ==
    everBuilt =>
        /\ \E row \in documents : row.file_path = MainPath /\ is_cache_complete(cache_status, row.id) /\ load_indices(objects, row.id) # None
        /\ mainPc \notin BuildPcs
        /\ (mainPc = "ready" /\ call.name = "register_document" => mainLocals.path = "load")

\* C2 witness: a later run, started after the build run, is ready on the load path
C2_Witness == everBuilt /\ mainPc = "ready" /\ mainLocals.path = "load" /\ call.ret = "unchanged"

\* C3: invalidation completeness: once clear_document_cache(D) has returned,
\* D has no hierarchy rows, the collection doc_<D>_embeddings does not exist,
\* neither artifact file of D exists and is_cache_complete(D) is false.
C3_InvalidationComplete ==
    call.name = "clear_document_cache" =>
        /\ ~HasRows(call.doc)
        /\ chroma[call.doc] = NoColl
        /\ NoArtifacts(call.doc)
        /\ ~is_cache_complete(cache_status, call.doc)

\* C4: in every reachable state, is_cache_complete(D) is true if and only if
\* D has at least one hierarchy row and both artifact files of D exist (the
\* vector collection may be empty).
C4_CompleteIffData == \A d \in DocIds : is_cache_complete(cache_status, d) <=> (HasRows(d) /\ HasArtifacts(d))

\* C5: in the build pipeline, embeddings_done = TRUE implies that the
\* collection doc_<D>_embeddings has been written.
C5_EmbeddedImpliesVectors == \A d \in DocIds : Flag(cache_status, d, "embeddings_done") => chroma[d] # NoColl

\* C6: parsing_done = TRUE for D implies that D has at least one hierarchy row.
C6_ParsedImpliesRows == \A d \in DocIds : Flag(cache_status, d, "parsing_done") => HasRows(d)

\* a step that invalidates d: clear_document_cache(d), or register_document
\* finding a changed hash for d
Invalidates(d) ==
    /\ call'.doc = d
    /\ \/ call'.name = "clear_document_cache"
       \/ call'.name = "register_document" /\ call'.ret = "changed"

\* C7: completion flags are monotone: a flag that is true for D stays true
\* under every step that is not an invalidation of D.
C7_FlagsMonotone == [][\A d \in DocIds, f \in FlagNames : (Flag(cache_status, d, f) /\ ~Invalidates(d)) => Flag(cache_status', d, f)]_vars

\* the documents row of path p holds the hash the file has now
StoredUnchanged(p) == \E row \in documents : row.file_path = p /\ row.file_hash = files[p]

StoredChanged(p) == \E row \in documents : row.file_path = p /\ row.file_hash # files[p]

StoredId(p) == (CHOOSE row \in documents : row.file_path = p).id

\* C8: idempotence of registration: register_document on a path whose stored
\* hash equals the file's hash returns the stored id and leaves the documents
\* row, the cache_status rows and the hierarchy rows unchanged.
C8_RegisterIdempotent ==
    [][\A p \in Paths : (StoredUnchanged(p) /\ ApiRegister(p)) =>
            /\ call'.doc = StoredId(p)
            /\ documents' = documents
            /\ cache_status' = cache_status
            /\ hierarchy' = hierarchy]_vars

\* C8 witness: an unchanged document with a parsed tree has been registered again
C8_Witness == call.name = "register_document" /\ call.ret = "unchanged" /\ Flag(cache_status, call.doc, "parsing_done") /\ HasRows(call.doc)

OnlyHashUpdated(p) ==
    /\ {[id |-> row.id, file_path |-> row.file_path] : row \in documents'} = {[id |-> row.id, file_path |-> row.file_path] : row \in documents}
    /\ \A row \in documents' : row.file_path = p => row.file_hash = files[p]
    /\ \A row \in documents' : row.file_path # p => row \in documents

\* C9 as stated: register_document finding a changed hash changes only the
\* documents row; hierarchy rows, cache_status row, vectors and artifacts
\* stay as they were.
C9_RegisterChangesOnlyDocument ==
    [][\A p \in Paths : (StoredChanged(p) /\ ApiRegister(p)) =>
            /\ OnlyHashUpdated(p)
            /\ hierarchy' = hierarchy
            /\ cache_status' = cache_status
            /\ chroma' = chroma
            /\ objects' = objects]_vars

\* C9 amended: register_document finding a changed hash updates the hash in
\* the documents row (same id, same path), deletes the document's
\* cache_status row and all its hierarchy rows, and leaves the vector
\* collections and the artifact files as they were.
C9_RegisterChangedEffect ==
    [][\A p \in Paths : (StoredChanged(p) /\ ApiRegister(p)) =>
            /\ call'.doc = StoredId(p)
            /\ OnlyHashUpdated(p)
            /\ ~\E r \in hierarchy' : r.document_id = StoredId(p)
            /\ \A r \in hierarchy : r.document_id # StoredId(p) => r \in hierarchy'
            /\ cache_status'[StoredId(p)] = NoRow
            /\ \A d \in DocIds \ {StoredId(p)} : cache_status'[d] = cache_status[d]
            /\ chroma' = chroma
            /\ objects' = objects]_vars

\* C9 witness: a changed file has been registered while the document's
\* collection and artifact files exist: they are still there, the rows are gone
C9_Witness == call.name = "register_document" /\ call.ret = "changed" /\ chroma[call.doc] # NoColl /\ HasArtifacts(call.doc) /\ ~HasRows(call.doc)

\* C10: invalidation on content change is total and precedes the next
\* commit: when main is about to call save_law_tree after register_document
\* found a changed hash, the document's hierarchy rows, vector collection,
\* artifact files and cache_status row have all been removed.
C10_InvalidationBeforeCommit ==
    (mainPc = "save_tree" /\ mainLocals.changed) =>
        /\ ~HasRows(mainLocals.doc_id)
        /\ chroma[mainLocals.doc_id] = NoColl
        /\ NoArtifacts(mainLocals.doc_id)
        /\ cache_status[mainLocals.doc_id] = NoRow

ArtifactPair(objs, d) == <<objs[<<d, "top_index">>], objs[<<d, "engines">>]>>

\* C16: artifact save is all-or-nothing: a save_indices call in which the
\* write of either artifact file fails leaves the document's artifact pair
\* exactly as it was before the call.
C16_ArtifactSaveAtomic ==
    [][\A d \in DocIds, h \in Builds, o \in IndexOutcomes \ {"ok"} :
            ApiSaveIndices(d, h, o) => ArtifactPair(objects', d) = ArtifactPair(objects, d)]_vars

\* C17: a failure on a write path does not advance the cache flags: a
\* save_law_tree that raises commits no hierarchy row and leaves
\* cache_status as it was; a save_indices whose artifact write fails leaves
\* cache_status as it was.
C17_FailedWriteKeepsFlags ==
    [][/\ \A d \in DocIds, h \in Hashes : (ApiSaveLawTree(d, h) /\ call'.ret = "raise") =>
              (hierarchy' = hierarchy /\ cache_status' = cache_status)
       /\ \A d \in DocIds, h \in Builds, o \in IndexOutcomes \ {"ok"} :
              ApiSaveIndices(d, h, o) => cache_status' = cache_status]_vars

\* C17 witness: save_law_tree has raised on a document that has no
\* cache_status row, and none was written
C17_Witness == call.name = "save_law_tree" /\ call.ret = "raise" /\ cache_status[call.doc] = NoRow /\ documents # {}

\* C18: a failed build is never half-committed: when
\* build_hierarchical_index raises or an artifact write fails in
\* build_fresh_data, the hierarchy rows, cache_status flags, vector
\* collection and artifact files are afterwards what they were when that
\* build started.
C18_FailedBuildRestores ==
    [][/\ (MainBuild /\ BuildRaises(TreeOf(mainLocals.law_tree[1]))) => Stores' = mainLocals.before[1]
       /\ \A o \in IndexOutcomes \ {"ok"} : MainSaveIndices(o) => Stores' = mainLocals.before[1]]_vars

Unreadable(objs, d) == \E k \in Kinds : objs[<<d, k>>] = NoFile \/ objs[<<d, k>>] = Partial

\* C19: load_indices returns None whenever either artifact file is missing
\* or cannot be unpickled, and the stored pair when both files load; and
\* when load_indices returned None, main goes on to build_fresh_data and
\* not to the queries.
C19_LoadIndicesAbsent ==
    [][/\ \A d \in DocIds : IF Unreadable(objects, d)
                            THEN load_indices(objects, d) = None
                            ELSE load_indices(objects, d) = ArtifactPair(objects, d)
       /\ MainLoadIndices => (mainPc' = IF Unreadable(objects, mainLocals.doc_id) THEN "parse" ELSE "ready")]_vars

\* C19 witness: main found the cache complete, load_indices returned None
\* and main is about to parse
C19_Witness == mainPc = "parse" /\ mainLocals.law_tree # None /\ mainLocals.path = "none" /\ Unreadable(objects, mainLocals.doc_id)

\* C20 as stated: after any save_embeddings(D, records) call, successful or
\* failed at any step, the collection of D holds exactly the ids of the new
\* records or nothing.
C20_NewSetOrNothing ==
    [][\A d \in DocIds, o \in EmbedOutcomes, records \in EmbedInputs :
            (ApiSaveEmbeddings(d, o) /\ save_embeddings(d, records, o)) =>
                chroma'[d] \in {Coll(RecordIds(records)), Coll({}), NoColl}]_vars

\* C20 amended: after any save_embeddings(D, records) call the collection
\* of D holds exactly the ids of the new records, or nothing, or, when the
\* deletion of the previous collection failed, the previous set untouched;
\* it never holds a mix of the previous and the new ids.
C20_NoMixedCollection ==
    [][\A d \in DocIds, o \in EmbedOutcomes, records \in EmbedInputs :
            (ApiSaveEmbeddings(d, o) /\ save_embeddings(d, records, o)) =>
                /\ chroma'[d] \in {Coll(RecordIds(records)), Coll({}), NoColl, chroma[d]}
                /\ chroma'[d] = chroma[d] /\ chroma[d] \notin {Coll(RecordIds(records)), Coll({}), NoColl} => o = "fail_delete"]_vars

\* C20 witness: a collection holding v1 has been replaced by one holding v2
\* alone, and then a call whose delete_collection failed left it untouched
C20_Witness == call.name = "save_embeddings" /\ call.ret = "fail_delete" /\ chroma[call.doc] = Coll({"v2"}) /\ \E r \in hierarchy : r.vector_collection = call.doc

\* C11: at most one document record per path: under any interleaving of
\* register_document calls the documents table never holds two rows with
\* the same file_path, and every call that returns yields the id of the
\* row of its path.
C11_OneRowPerPath ==
    /\ \A r1 \in documents, r2 \in documents : r1.file_path = r2.file_path => r1 = r2
    /\ \A i \in Procs : regs[i].pc = "returned" =>
           \E row \in documents : row.file_path = MainPath /\ row.id = regs[i].ret

\* C11 witness: two first registrations of the same new path ran at once:
\* both found no row, one inserted and returned, the other's INSERT raised
C11_Witness ==
    \E i \in Procs, j \in Procs :
        /\ regs[i].pc = "returned" /\ regs[i].result = None
        /\ regs[j].pc = "raised" /\ regs[j].result = None

RECURSIVE NodeAt(_, _)
\* the entry of the input tree at a path of positions
NodeAt(items, path) == IF Len(path) = 1 THEN items[path[1]] ELSE NodeAt(items[path[1]].kids, Tail(path))

RECURSIVE BranchPaths(_, _)
\* the paths of the parts, chapters, sections and articles of a tree
BranchPaths(items, prefix) ==
    UNION {IF items[i].isDict THEN {Append(prefix, i)} \cup BranchPaths(items[i].kids, Append(prefix, i)) ELSE {} : i \in 1..Len(items)}

RECURSIVE Alive(_)
\* a clause with text, or an entry with such a clause somewhere below it
Alive(item) == IF item.isDict THEN \E i \in 1..Len(item.kids) : Alive(item.kids[i]) ELSE item.text # ""

SurvivingKids(items) == SelectSeq([i \in 1..Len(items) |-> i], LAMBDA i : Alive(items[i]))

PathsOf(nodes) == [n \in 1..Len(nodes) |-> nodes[n].path]

\* every node a build result holds: the part nodes and the nodes the handles were built over
HeldNodes(R) ==
    {R.all_part_nodes[n] : n \in 1..Len(R.all_part_nodes)}
        \cup UNION {{R.child_query_engines[t].over[n] : n \in 1..Len(R.child_query_engines[t].over)} : t \in DOMAIN R.child_query_engines}

\* C13: builder skipping: build_hierarchical_index raises exactly when no
\* part has a non-empty clause below it; otherwise the top index is built
\* over the parts that have one, in order; every handle belongs to an entry
\* that has one, is stored under that entry's title and is built over exactly
\* the children of the entry that have one, in order; and an article,
\* section, chapter or part without any non-empty clause has no node and no
\* handle.
C13_BuilderSkipping ==
    treePc = "built" =>
        LET R == call.ret
            E == R.child_query_engines
        IN /\ R.raised = (\A p \in 1..Len(inputTree) : ~Alive(inputTree[p]))
           /\ PathsOf(R.all_part_nodes) = [n \in 1..Len(SurvivingKids(inputTree)) |-> <<SurvivingKids(inputTree)[n]>>]
           /\ \A t \in DOMAIN E :
                  LET item == NodeAt(inputTree, E[t].owner)
                  IN /\ Alive(item)
                     /\ item.title = t
                     /\ PathsOf(E[t].over) = [n \in 1..Len(SurvivingKids(item.kids)) |-> Append(E[t].owner, SurvivingKids(item.kids)[n])]
           /\ \A q \in BranchPaths(inputTree, <<>>) :
                  ~Alive(NodeAt(inputTree, q)) =>
                      /\ \A N \in HeldNodes(R) : N.path # q
                      /\ \A t \in DOMAIN E : E[t].owner # q

\* C13 witness: a build that returned although a part, a chapter and an
\* article of the tree had no non-empty clause
C13_Witness ==
    /\ treePc = "built"
    /\ ~call.ret.raised
    /\ \A k \in 1..3 : \E q \in BranchPaths(inputTree, <<>>) : Len(q) = k /\ ~Alive(NodeAt(inputTree, q))
    /\ \E t \in DOMAIN call.ret.child_query_engines : Len(call.ret.child_query_engines[t].over) < Len(NodeAt(inputTree, call.ret.child_query_engines[t].owner).kids)

\* text[:300] + "..." when longer than 300 characters, else the whole text
Truncation(text) == IF text.len > FallbackChars THEN [text EXCEPT !.take = FallbackChars, !.dots = TRUE] ELSE text

C15_HandlePerNode ==
    (treePc = "built" /\ ~call.ret.raised) =>
        LET E == call.ret.child_query_engines
        IN \A q \in BranchPaths(inputTree, <<>>) :
               Alive(NodeAt(inputTree, q)) =>
                   /\ NodeAt(inputTree, q).title \in DOMAIN E
                   /\ E[NodeAt(inputTree, q).title].owner = q

\* C25: is_cache_complete(D) returns true exactly when a cache_status row
\* exists for D with parsing_done, indexing_done and embeddings_done all true,
\* false when the row is absent or a flag is false, and it modifies nothing:
\* main takes the load path after the call exactly in the first case, and the
\* call leaves the files and every store as they were.
C25_CompleteExact ==
    [][(mainPc = "check" /\ mainPc' \notin {"check", "idle"}) =>
        /\ mainPc' \in {"load_tree", "parse"}
        /\ (mainPc' = "load_tree") <=> (\A f \in FlagNames : Flag(cache_status, mainLocals.doc_id, f))
        /\ UNCHANGED <<files, dbVars>>]_vars

\* is_cache_complete has answered false for a row whose second flag is false
C25_Witness == mainPc = "parse" /\ Flag(cache_status, mainLocals.doc_id, "parsing_done") /\ ~Flag(cache_status, mainLocals.doc_id, "indexing_done")

\* the clauses of a tree: its entries whose value is a str
RECURSIVE ClausesOf(_)
ClausesOf(content) == UNION {IF content[i].isDict THEN ClausesOf(content[i].kids) ELSE {content[i]} : i \in 1..Len(content)}

\* C26: stored content by level: after save_law_tree(D, T), every clause of
\* T is stored as a row with level = 'clause' whose content is the clause's
\* literal text, and every row for a part, chapter, section or article has
\* empty content.
C26_ContentByLevel ==
    treePc \in {"load", "loaded"} =>
        /\ \A c \in ClausesOf(inputTree) : \E r \in hierarchy : r.document_id = call.doc /\ r.level = "clause" /\ r.title = c.title /\ r.content = c.text
        /\ \A r \in hierarchy : r.level \in {"part", "chapter", "section", "article"} => r.content = ""

SpecLevels == {"part", "chapter", "section", "article", "clause"}

\* the level the position of a row calls for, from the level of its parent row
LevelBelow(p) ==
    CASE p.level = "part" -> "chapter"
      [] p.level = "chapter" -> IF \E f \in hierarchy : f.parent_id = p.id /\ f.order_index = 0 /\ StartsWithMuc(f.title) THEN "section" ELSE "article"
      [] p.level = "section" -> "article"
      [] p.level = "article" -> "clause"
      [] OTHER -> "none"

\* C27: stored level by position: after save_law_tree(D, T), every stored
\* row's level is one of part, chapter, section, article, clause; top-level
\* titles are stored as part, their children as chapter, the children of a
\* chapter as section if the chapter's first child title begins with the
\* section marker and otherwise as article, the children of a section as
\* article, and the children of an article as clause.
C27_LevelByPosition ==
    treePc \in {"load", "loaded"} =>
        \A r \in hierarchy :
            /\ r.level \in SpecLevels
            /\ r.parent_id = NULL => r.level = "part"
            /\ \A p \in hierarchy : r.parent_id = p.id => r.level = LevelBelow(p)

Siblings(r1, r2) == r1.id # r2.id /\ r1.document_id = r2.document_id /\ r1.parent_id = r2.parent_id

\* C28: sibling order is unique in every reachable state: after any sequence
\* of pipeline runs for a document (a re-run of the build after an incomplete
\* or failed build and the rebuild after unloadable artifacts included), no
\* two hierarchy rows of the same document with the same parent (or both
\* without a parent) share an order_index, and the order_index values of
\* siblings follow their encounter order in the saved tree (the order of
\* their insertion).
C28_SiblingOrderUnique ==
    \A r1, r2 \in hierarchy :
        Siblings(r1, r2) =>
            /\ r1.order_index # r2.order_index
            /\ (r1.id < r2.id) <=> (r1.order_index < r2.order_index)

ParentExists(r) == \E p \in hierarchy : p.id = r.parent_id /\ p.document_id = r.document_id

\* following parent links from r for at most n steps ends at a row without a parent
RECURSIVE ReachesRoot(_, _)
ReachesRoot(r, n) ==
    IF r.parent_id = NULL THEN TRUE
    ELSE IF n = 0 THEN FALSE
    ELSE \E p \in hierarchy : p.id = r.parent_id /\ ReachesRoot(p, n - 1)

\* the forest without the level of its roots
ForestShape == \A r \in hierarchy : (r.parent_id # NULL => ParentExists(r)) /\ ReachesRoot(r, MaxHierId)

\* C29: forest invariant: in every reachable state, every hierarchy row with
\* a non-null parent_id refers to an existing hierarchy row of the same
\* document, rows without a parent are exactly the part-level roots (the rows
\* whose level is 'part'), and following parent links from any row reaches a
\* root without a cycle; no invalidation or registration leaves a row whose
\* parent has been deleted.
C29_Forest == ForestShape /\ \A r \in hierarchy : (r.parent_id = NULL) <=> (r.level = "part")

\* C21: vector-store failures are non-fatal: a failure of a vector-store call
\* inside save_embeddings, search_vectors or clear_document_cache never
\* propagates to the caller; search_vectors then returns an empty list, and
\* the other two return normally.
C21_VectorFailuresSwallowed ==
    [][/\ \A d \in DocIds, k \in TopKs, o \in SearchOutcomes :
            ApiSearchVectors(d, k, o) =>
                /\ ~call'.ret.raised
                /\ (chroma[d] = NoColl \/ o = "fail_query") => call'.ret.results = <<>>
       /\ \A d \in DocIds, o \in EmbedOutcomes : ApiSaveEmbeddings(d, o) => call'.ret = o
       /\ \A d \in DocIds, o \in ClearOutcomes : ApiClear(d, o) => call'.ret = "done"]_vars

\* a query that failed on a collection holding vectors has returned []
C21_Witness == call.name = "search_vectors" /\ chroma[call.doc] # NoColl /\ chroma[call.doc].ids # {} /\ ~call.ret.raised /\ call.ret.results = <<>>

----------------------------------------------------------------------------
(* EnhancedQueryEngine: the Global-Bridge-Local trace and the response.     *)
(* A passage is a retrieved node: the lines of its text and its rank in the *)
(* retriever's result (its score).                                          *)

MaxTop == 2
MaxRecursive == 3

Patterns == {"chapter", "part", "article", "khoan", "diem"}

\* what a pattern captures in one line (group(1)), or None: the patterns are
\* case-sensitive, and the clause pattern (digits, a dot, a non-digit) also
\* matches inside an article heading
GroupIn(pattern, line) ==
    CASE pattern = "chapter" /\ line = "Chuong I" -> Some(line)
      [] pattern = "part" /\ line = "PHAN THU NHAT" -> Some(line)
      [] pattern = "article" /\ line = "Dieu 5. Pham vi" -> Some(line)
      [] pattern = "khoan" /\ line = "1. Nguoi" -> Some(line)
      [] pattern = "khoan" /\ line = "Dieu 5. Pham vi" -> Some("5. Pham vi")
      [] pattern = "diem" /\ line = "a) nguoi" -> Some(line)
      [] OTHER -> None

\* re.search(pattern, text): the leftmost match, from line i on
RECURSIVE SearchFrom(_, _, _)
SearchFrom(pattern, text, i) ==
    IF i > Len(text) THEN None
    ELSE IF GroupIn(pattern, text[i]) # None THEN GroupIn(pattern, text[i])
    ELSE SearchFrom(pattern, text, i + 1)

re_search(pattern, text) == SearchFrom(pattern, text, 1)

TopTexts == {<<"Chuong I">>, <<"PHAN THU NHAT">>, <<"PHAN THU NHAT", "Chuong I">>, <<"CHUONG I">>}

RecursiveTexts == {<<"Dieu 5. Pham vi">>, <<"1. Nguoi">>, <<"a) nguoi">>, <<"a) nguoi", "1. Nguoi">>, <<"van ban">>}

\* the result of retrieve(): nodes in rank order
Ranked(texts) == [i \in 1..Len(texts) |-> [text |-> texts[i], score |-> i]]

SeqsUpTo(S, n) == UNION {[1..k -> S] : k \in 0..n}

\* info[:n], with every entry kept
SliceAll(info, n) == info

\* info[:n]
Slice(info, n) == SubSeq(info, 1, IF Len(info) < n THEN Len(info) ELSE n)

TitleEntry(type, title, score) == [type |-> type, title |-> title, score |-> score]

ContentEntry(type, content, score) == [type |-> type, content |-> content, score |-> score]

RECURSIVE GlobalLoop(_, _, _)
GlobalLoop(nodes, i, global_info) ==
    IF i > Len(nodes) THEN global_info
    ELSE LET chapter_match == re_search("chapter", nodes[i].text)
             part_match == re_search("part", nodes[i].text)
         IN GlobalLoop(nodes, i + 1,
                CASE chapter_match # None -> Append(global_info, TitleEntry("Chuong", chapter_match[1], nodes[i].score))
                  [] chapter_match = None /\ part_match # None -> Append(global_info, TitleEntry("Phan", part_match[1], nodes[i].score))
                  [] OTHER -> global_info)

_get_global_level_nodes(nodes) == Slice(GlobalLoop(nodes, 1, <<>>), 1)

RECURSIVE BridgeLoop(_, _, _)
BridgeLoop(nodes, i, bridge_info) ==
    IF i > Len(nodes) THEN bridge_info
    ELSE LET article_match == re_search("article", nodes[i].text)
         IN BridgeLoop(nodes, i + 1,
                IF article_match # None THEN Append(bridge_info, TitleEntry("Dieu", article_match[1], nodes[i].score)) ELSE bridge_info)

_get_bridge_level_nodes(nodes) == Slice(BridgeLoop(nodes, 1, <<>>), 1)

RECURSIVE LocalLoop(_, _, _)
LocalLoop(nodes, i, local_info) ==
    IF i > Len(nodes) THEN local_info
    ELSE LET khoac_match == re_search("khoan", nodes[i].text)
             diem_match == re_search("diem", nodes[i].text)
         IN LocalLoop(nodes, i + 1,
                CASE khoac_match # None -> Append(local_info, ContentEntry("Khoan", khoac_match[1], nodes[i].score))
                  [] khoac_match = None /\ diem_match # None -> Append(local_info, ContentEntry("Diem", diem_match[1], nodes[i].score))
                  [] OTHER -> local_info)

_get_local_level_nodes(nodes) == Slice(LocalLoop(nodes, 1, <<>>), 2)

\* which call of the query raises: the top retriever's retrieve, the recursive
\* retriever's retrieve for the Bridge or for the Local tier, or the query
\* engine's query
QueryFails == {"none", "top", "bridge", "local", "answer"}

Raised == [raised |-> TRUE]

\* top, recursive: what the two retrievers return for the query
_extract_global_bridge_local(top, recursive, fail) ==
    IF fail \in {"top", "bridge", "local"} THEN Raised
    ELSE [raised |-> FALSE, global |-> _get_global_level_nodes(top), bridge |-> _get_bridge_level_nodes(recursive), local |-> _get_local_level_nodes(recursive)]

\* a section that is written whatever the tier holds
SectionAlways(name, entries, body) == <<[section |-> name, body |-> body]>>

\* if structured_info[tier]: result += ...
Section(name, entries, body) == IF entries # <<>> THEN <<[section |-> name, body |-> body]>> ELSE <<>>

\* the response as the sequence of its sections
_format_structured_response(query, structured_info, llm_response) ==
    <<[section |-> "Query", body |-> query]>>
    \o Section("Global", structured_info.global, IF structured_info.global # <<>> THEN <<structured_info.global[1].type, structured_info.global[1].title>> ELSE <<>>)
    \o Section("Bridge", structured_info.bridge, IF structured_info.bridge # <<>> THEN <<structured_info.bridge[1].type, structured_info.bridge[1].title>> ELSE <<>>)
    \o Section("Local", structured_info.local, [i \in 1..Len(structured_info.local) |-> structured_info.local[i].content])
    \o <<[section |-> "Answer", body |-> llm_response]>>

QueryInputs == [top : {Ranked(t) : t \in SeqsUpTo(TopTexts, MaxTop)}, recursive : {Ranked(t) : t \in SeqsUpTo(RecursiveTexts, MaxRecursive)}, fail : QueryFails, query : {"q"}]

InitQuery ==
    /\ files = [p \in Paths |-> 1]
    /\ InitDb
    /\ InitProcs
    /\ inputTree \in QueryInputs
    /\ treePc = "query"
    /\ regs = [i \in Procs |-> RegIdle]
    /\ settings = LiteLLMUp

\* multi_query([query]), first half: structured_info = self._extract_global_bridge_local(query_str)
QueryExtract ==
    /\ treePc = "query"
    /\ call' = Called("_extract_global_bridge_local", NULL, _extract_global_bridge_local(inputTree.top, inputTree.recursive, inputTree.fail))
    /\ treePc' = IF call'.ret.raised THEN "raised" ELSE "extracted"
    /\ UNCHANGED <<files, dbVars, procVars, inputTree, regs, settings>>

\* second half: the answer of basic_query_engine, the formatted result and the
\* joined return value
QueryRespond ==
    /\ treePc = "extracted"
    /\ call' = Called("multi_query", NULL,
                       IF inputTree.fail = "answer" THEN Raised
                       ELSE [raised |-> FALSE, info |-> call.ret, results |-> <<_format_structured_response(inputTree.query, call.ret, "answer")>>])
    /\ treePc' = IF call'.ret.raised THEN "raised" ELSE "returned"
    /\ UNCHANGED <<files, dbVars, procVars, inputTree, regs, settings>>

QueryNext == QueryExtract \/ QueryRespond

QuerySpec == InitQuery /\ [][QueryNext]_vars

\* the trace of the query in progress
Trace == IF treePc = "extracted" THEN call.ret ELSE call.ret.info

HasSection(response, name) == \E i \in 1..Len(response) : response[i].section = name

\* C22: query-time failures do not fail the query: if a retrieval step used
\* for trace extraction (the top-level retrieve or a recursive retrieve) fails
\* during query / multi_query, the call still returns a response in which the
\* affected tiers are omitted, instead of raising.
C22_RetrievalFailureTolerated ==
    inputTree.fail \in {"top", "bridge", "local"} =>
        /\ treePc # "raised"
        /\ treePc = "returned" =>
            /\ inputTree.fail = "top" => ~HasSection(call.ret.results[1], "Global")
            /\ inputTree.fail = "bridge" => ~HasSection(call.ret.results[1], "Bridge")
            /\ inputTree.fail = "local" => ~HasSection(call.ret.results[1], "Local")

\* the passages of nodes whose text matches one of the patterns
Matching(nodes, pats) == {i \in 1..Len(nodes) : \E p \in pats : re_search(p, nodes[i].text) # None}

\* entries come from the first matching passages, in retrieval order, limit at most
FirstMatches(entries, nodes, pats, limit) ==
    /\ Len(entries) <= limit
    /\ Len(entries) = limit \/ Len(entries) = Cardinality(Matching(nodes, pats))
    /\ \A k \in 1..Len(entries) :
        /\ entries[k].score \in Matching(nodes, pats)
        /\ Cardinality({i \in Matching(nodes, pats) : i < entries[k].score}) = k - 1

\* C23: trace tier sizes: for any lists of retrieved passages, the extracted
\* trace holds at most 1 Global entry, at most 1 Bridge entry and at most 2
\* Local entries, and each tier's entries are the first passages, in retrieval
\* order, whose text matches that tier's marker (chapter or part for Global,
\* article for Bridge, clause or point for Local).
C23_TraceTiers ==
    treePc \in {"extracted", "returned"} =>
        /\ FirstMatches(Trace.global, inputTree.top, {"chapter", "part"}, 1)
        /\ FirstMatches(Trace.bridge, inputTree.recursive, {"article"}, 1)
        /\ FirstMatches(Trace.local, inputTree.recursive, {"khoan", "diem"}, 2)

\* three passages match the Local markers and two are kept; the Global entry
\* comes from the second passage, the first one matching no marker
C23_Witness ==
    /\ treePc = "extracted"
    /\ Cardinality(Matching(inputTree.recursive, {"khoan", "diem"})) = 3
    /\ Len(call.ret.local) = 2
    /\ Len(call.ret.global) = 1 /\ call.ret.global[1].score = 2

TierNames == {"Global", "Bridge", "Local"}

TierEntries(info, name) == IF name = "Global" THEN info.global ELSE IF name = "Bridge" THEN info.bridge ELSE info.local

\* C24: tier omission: for every combination of empty and non-empty trace
\* tiers, _format_structured_response returns normally, contains the section
\* of a tier exactly when that tier has at least one entry, and always
\* contains the query and the generated answer.
C24_TierOmission ==
    treePc = "returned" =>
        LET response == call.ret.results[1]
        IN /\ \A name \in TierNames : HasSection(response, name) <=> TierEntries(call.ret.info, name) # <<>>
           /\ \E i \in 1..Len(response) : response[i].section = "Query" /\ response[i].body = inputTree.query
           /\ \E i \in 1..Len(response) : response[i].section = "Answer" /\ response[i].body = "answer"

\* a response with the Local section alone between the query and the answer
C24_Witness ==
    /\ treePc = "returned"
    /\ call.ret.info.global = <<>> /\ call.ret.info.bridge = <<>> /\ call.ret.info.local # <<>>
    /\ Len(call.ret.results[1]) = 3

----------------------------------------------------------------------------
(* Two documents in one data/db: DatabaseManager's methods called for      *)
(* either, in any order                                                     *)

\* client i works on the document of path i: regs[i].pc is its position
\* (register, save_law_tree, save_embeddings, save_indices, built) and
\* regs[i].ret its doc_id
PairIds == Procs

PairHashes == {1, 2}

InitPair ==
    /\ files = [p \in Procs |-> 1]
    /\ documents = {}
    /\ docSeq = 0
    /\ hierarchy = {}
    /\ hierSeq = 0
    /\ cache_status = [d \in PairIds |-> NoRow]
    /\ chroma = [d \in PairIds |-> NoColl]
    /\ objects = [f \in PairIds \X Kinds |-> NoFile]
    /\ InitProcs
    /\ inputTree = <<>>
    /\ treePc = "off"
    /\ regs = [i \in Procs |-> RegIdle]
    /\ settings = LiteLLMUp

pairRest == <<files, procVars, treeVars, settings>>

At(i, pc) == [regs EXCEPT ![i].pc = pc]

PairRegister(i) ==
    /\ regs[i].pc = "idle"
    /\ register_document(i)
    /\ regs' = [regs EXCEPT ![i] = [pc |-> "save_tree", file_hash |-> files[i], result |-> None, ret |-> call'.doc]]
    /\ UNCHANGED pairRest

PairSaveLawTree(i) ==
    /\ regs[i].pc = "save_tree"
    /\ CanSave(regs[i].ret, TreeOf(1))
    /\ save_law_tree(regs[i].ret, TreeOf(1))
    /\ regs' = At(i, "embed")
    /\ UNCHANGED pairRest

PairSaveEmbeddings(i, outcome) ==
    /\ regs[i].pc = "embed"
    /\ outcome = "fail_delete" => chroma[regs[i].ret] # NoColl
    /\ \E records \in EmbedInputs : save_embeddings(regs[i].ret, records, outcome)
    /\ regs' = At(i, "indices")
    /\ UNCHANGED pairRest

PairSaveIndices(i, outcome) ==
    /\ regs[i].pc = "indices"
    /\ save_indices(regs[i].ret, 1, outcome)
    /\ regs' = At(i, "built")
    /\ UNCHANGED pairRest

\* db_cli rebuild: the cache is cleared and the build starts again
PairClear(i, outcome) ==
    /\ regs[i].pc = "built"
    /\ CanClear(regs[i].ret, outcome)
    /\ clear_document_cache(regs[i].ret, outcome)
    /\ regs' = At(i, "save_tree")
    /\ UNCHANGED pairRest

\* the file is edited and the client starts over with register_document
PairEdit(i, h) ==
    /\ regs[i].pc = "built"
    /\ h # files[i]
    /\ files' = [files EXCEPT ![i] = h]
    /\ regs' = At(i, "idle")
    /\ UNCHANGED <<dbVars, procVars, call, treeVars, settings>>

ClearAllOutcomes == {"ok", "fail_vectors"}

\* db_cli clear, answered yes: the three tables are emptied and committed, the
\* collections are deleted inside try/except: pass (fail_vectors: a call
\* raises after the collections of gone were deleted), the objects directory
\* is removed and made again.  The DELETEs leave sqlite_sequence as it is.
ClearAllVectors(outcome, gone) ==
    /\ outcome = "ok" => gone = {d \in PairIds : chroma[d] # NoColl}
    /\ outcome = "fail_vectors" => gone # {d \in PairIds : chroma[d] # NoColl}
    /\ chroma' = [d \in PairIds |-> IF d \in gone THEN NoColl ELSE chroma[d]]

PairClearAll(outcome) ==
    /\ \E gone \in SUBSET {d \in PairIds : chroma[d] # NoColl} : ClearAllVectors(outcome, gone)
    /\ documents' = {}
    /\ hierarchy' = {}
    /\ cache_status' = [d \in PairIds |-> NoRow]
    /\ objects' = [f \in PairIds \X Kinds |-> NoFile]
    /\ call' = Called("cmd_clear", NULL, outcome)
    /\ UNCHANGED <<docSeq, hierSeq, regs, files, procVars, treeVars, settings>>

PairNext ==
    \/ \E i \in Procs : PairRegister(i)
    \/ \E i \in Procs : PairSaveLawTree(i)
    \/ \E i \in Procs, o \in EmbedOutcomes : PairSaveEmbeddings(i, o)
    \/ \E i \in Procs, o \in IndexOutcomes : PairSaveIndices(i, o)
    \/ \E i \in Procs, o \in ClearOutcomes : PairClear(i, o)
    \/ \E i \in Procs, h \in PairHashes : PairEdit(i, h)
    \/ \E o \in ClearAllOutcomes : PairClearAll(o)

PairSpec == InitPair /\ [][PairNext]_vars

\* what the stores hold for document d
DocState(d) ==
    [row |-> {r \in documents : r.id = d},
     rows |-> {r \in hierarchy : r.document_id = d},
     status |-> cache_status[d],
     collection |-> chroma[d],
     artifacts |-> [k \in Kinds |-> objects[<<d, k>>]]]

\* C30: cross-document independence: for two different documents D1 and D2,
\* every operation on D1 (register_document, save_law_tree, save_embeddings,
\* save_indices, clear_document_cache) leaves D2's documents row, hierarchy
\* rows, cache_status flags, vector collection and artifact files unchanged.
C30_CrossDocumentIndependence ==
    [][\A d2 \in PairIds : call'.doc \in PairIds \ {d2} => DocState(d2)' = DocState(d2)]_vars

FlagsTogether(status, d) ==
    status[d] # NoRow =>
        /\ status[d].indexing_done = status[d].embeddings_done
        /\ status[d].indexing_done => status[d].parsing_done

\* C36: flags move together and in order: in every reachable state each
\* cache_status row has indexing_done equal to embeddings_done, and
\* indexing_done = TRUE implies parsing_done = TRUE; no operation sets one of
\* indexed/embedded without the other or sets them on a row whose parsed flag
\* is false.
C36_FlagsTogether ==
    /\ [](\A d \in DocIds : FlagsTogether(cache_status, d))
    /\ [][\A d \in DocIds :
            (Flag(cache_status', d, "indexing_done") /\ ~Flag(cache_status, d, "indexing_done")) \/ (Flag(cache_status', d, "embeddings_done") /\ ~Flag(cache_status, d, "embeddings_done"))
                => /\ Flag(cache_status, d, "parsing_done")
                   /\ Flag(cache_status', d, "indexing_done") /\ Flag(cache_status', d, "embeddings_done")]_vars

\* save_indices has set both flags on a parsed row
C36_Witness == call.name = "save_indices" /\ call.ret = "ok" /\ \A f \in FlagNames : Flag(cache_status, call.doc, f)

Complete(status, d) == \A f \in FlagNames : Flag(status, d, f)

\* C37: is_cache_complete(D) can become true only through a save_indices(D)
\* that succeeds on the row a save_law_tree(D) has written and no invalidation
\* has deleted since (a row appears through save_law_tree alone); a
\* save_indices call for a document without a cache_status row leaves
\* is_cache_complete(D) false even though it writes both artifact files.
C37_CompleteOnlyAfterParse ==
    [][\A d \in DocIds :
        /\ (cache_status[d] = NoRow /\ cache_status'[d] # NoRow) => (call'.name = "save_law_tree" /\ call'.doc = d)
        /\ (~is_cache_complete(cache_status, d) /\ is_cache_complete(cache_status', d)) =>
               /\ call'.name = "save_indices" /\ call'.doc = d /\ call'.ret = "ok"
               /\ Flag(cache_status, d, "parsing_done")
        /\ \A h \in Builds : (cache_status[d] = NoRow /\ ApiSaveIndices(d, h, "ok")) =>
               /\ ~Complete(cache_status', d)
               /\ objects'[<<d, "top_index">>] = Pickle(h) /\ objects'[<<d, "engines">>] = Pickle(h)]_vars

\* save_indices has written both files for a document without a row
C37_Witness == call.name = "save_indices" /\ call.ret = "ok" /\ cache_status[call.doc] = NoRow /\ HasArtifacts(call.doc) /\ ~is_cache_complete(cache_status, call.doc)

\* C39: load_law_tree(D) returns None if and only if no tree is stored for D:
\* it returns None for an unknown document id and for a registered document
\* that has no hierarchy rows (never parsed or invalidated).  Stated for the
\* load_law_tree call of main.
C39_LoadNoneIffNoTree ==
    [][(mainPc = "load_tree" /\ mainPc' = "load_indices") =>
        ((mainLocals'.law_tree = None) <=> ~HasRows(mainLocals.doc_id))]_vars

\* C35: get_database_stats is a read-only projection: in every reachable
\* state, the state in which the tables, the vector store and the objects
\* directory are all empty included, it returns without error and leaves
\* every table, collection and file unchanged.
C35_StatsReadOnly ==
    [][(call' # call /\ call'.name = "get_database_stats") => (~call'.ret.raised /\ UNCHANGED <<files, dbVars>>)]_vars

\* the statistics of the empty stores
C35_Witness ==
    /\ call.name = "get_database_stats"
    /\ documents = {} /\ hierarchy = {}
    /\ \A d \in DocIds : cache_status[d] = NoRow /\ chroma[d] = NoColl /\ NoArtifacts(d)
    /\ call.ret.documents = 0 /\ call.ret.cache_status.parsed = None /\ call.ret.vectors.total_vectors = 0

\* client i's register_document call returns
Registers(i) == regs[i].pc = "idle" /\ regs'[i].pc = "save_tree"

\* C38: the binding between a path and its document id is stable: while a
\* path's record exists, every register_document call for it returns the same
\* id whether the hash is unchanged or changed, and an id once issued is never
\* issued for a different path, even after the documents table has been
\* emptied and documents are registered again, so the vector collection and
\* artifact files named from an old id are never picked up by a new document.
C38_StableBinding ==
    [][\A i \in Procs : Registers(i) =>
        /\ \A row \in documents : row.file_path = i => (call'.doc = row.id /\ call'.ret \in {"unchanged", "changed"})
        /\ \A j \in Procs \ {i} : call'.doc # regs[j].ret
        /\ call'.ret = "new" => (chroma[call'.doc] = NoColl /\ NoArtifacts(call'.doc))]_vars

\* the second path is registered after the table was emptied, while the
\* collection named from the first id is still in the vector store
C38_Witness ==
    /\ call.name = "register_document" /\ call.ret = "new" /\ call.doc = 2
    /\ regs[1].ret = 1 /\ regs[2].ret = 2
    /\ Cardinality(documents) = 1
    /\ chroma[1] # NoColl

----------------------------------------------------------------------------
(* summarize_nodes on its own, for any list of nodes with text *)

MaxNodes == 3

\* len(node.text): short texts, and texts that bring a join of two to exactly
\* max_chars, to one more, and beyond
NodeTextLens == {160, max_chars - 161, max_chars - 160, max_chars + 1000}

NodeTexts == {Str(<<"text", n>>, n) : n \in NodeTextLens}

InitSummarize ==
    /\ files = [p \in Paths |-> 1]
    /\ InitDb
    /\ InitProcs
    /\ inputTree \in SeqsUpTo(NodeTexts, MaxNodes) \ {<<>>}
    /\ treePc = "summarize"
    /\ regs = [i \in Procs |-> RegIdle]
    /\ settings \in [class : LlmClasses, service : Services]

\* prompt: the child text of summary_prompt; summary: the return value
Summarize ==
    /\ treePc = "summarize"
    /\ call' = Called("summarize_nodes", NULL, [prompt |-> CombinedText(inputTree), summary |-> summarize_nodes(inputTree, settings)])
    /\ treePc' = "summarized"
    /\ UNCHANGED <<files, dbVars, procVars, inputTree, regs, settings>>

SummarizeSpec == InitSummarize /\ [][Summarize]_vars

\* len("\n".join(texts))
JoinedLen(texts) == SumLen(texts, 1) + Len(texts) - 1

\* C34: bounded summarizer input: for any list of child nodes, the child text
\* that summarize_nodes places in the prompt is the concatenated text cut to
\* at most 8000 characters (plus an ellipsis marker when cut), and it is the
\* whole concatenated text when that text has 8000 characters or fewer.
C34_BoundedPrompt ==
    treePc = "summarized" =>
        LET prompt == call.ret.prompt
        IN /\ prompt.parts = <<"join", inputTree>>
           /\ prompt.take <= 8000
           /\ IF JoinedLen(inputTree) <= 8000
              THEN prompt.take = JoinedLen(inputTree) /\ ~prompt.dots
              ELSE prompt.take = 8000 /\ prompt.dots

\* a joined text of exactly 8001 characters has been cut
C34_Witness == treePc = "summarized" /\ JoinedLen(inputTree) = 8001 /\ call.ret.prompt.take = 8000 /\ call.ret.prompt.dots

----------------------------------------------------------------------------
(* the completion requests of a build *)

\* the positions in the request log of the requests made for the node at q
CallsFor(R, q) == {k \in 1..Len(R.calls) : R.calls[k].node = q}

\* f"{title}: {summary}" for the entry at path q, with the summary that
\* request j returned
TitledSummary(R, q, j) ==
    LET title == NodeAt(inputTree, q).title
    IN Str(<<title, ": ", R.calls[j].summary>>, TitleLen(title) + 2 + StrLen(R.calls[j].summary))

\* C32: bottom-up ordering of the build: in every run of
\* build_hierarchical_index, the summary request for a section, chapter or
\* part is issued only after the summary of every one of its emitted children
\* has been produced, and the text it summarizes is the concatenation, in
\* document order, of exactly those children's "title: summary" texts.
C32_BottomUp ==
    treePc = "built" =>
        LET R == call.ret
        IN \A k \in 1..Len(R.calls) :
               R.calls[k].level \in {"section", "chapter", "part"} =>
                   LET q == R.calls[k].node
                       kids == SurvivingKids(NodeAt(inputTree, q).kids)
                   IN /\ \A n \in 1..Len(kids) : \E j \in 1..(k - 1) : R.calls[j].node = Append(q, kids[n])
                      /\ R.calls[k].prompt.parts[1] = "join"
                      /\ Len(R.calls[k].prompt.parts[2]) = Len(kids)
                      /\ \A n \in 1..Len(kids) : \A j \in CallsFor(R, Append(q, kids[n])) :
                             R.calls[k].prompt.parts[2][n] = TitledSummary(R, Append(q, kids[n]), j)

\* C32 witness: a build whose part request summarized two chapters, below
\* one of which a section was summarized, while a child of the part was skipped
C32_Witness ==
    /\ treePc = "built"
    /\ settings.service = "up"
    /\ \E k \in 1..Len(call.ret.calls) :
           /\ call.ret.calls[k].level = "part"
           /\ Len(call.ret.calls[k].prompt.parts[2]) = 2
    /\ \E k \in 1..Len(call.ret.calls) : call.ret.calls[k].level = "section"
    /\ \E q \in BranchPaths(inputTree, <<>>) : ~Alive(NodeAt(inputTree, q))

\* C33: one summary per emitted node: in every run of
\* build_hierarchical_index the completion collaborator is called exactly
\* once for each emitted article, section, chapter and part node, never for a
\* skipped node, and never for the top-level index.
C33_OneSummaryPerNode ==
    treePc = "built" =>
        LET R == call.ret
            Emitted == {N \in HeldNodes(R) : N.level # "clause"}
        IN /\ \A N \in Emitted : Cardinality(CallsFor(R, N.path)) = 1
           /\ \A q \in BranchPaths(inputTree, <<>>) :
                  Cardinality(CallsFor(R, q)) = IF Alive(NodeAt(inputTree, q)) THEN 1 ELSE 0
           /\ \A k \in 1..Len(R.calls) : R.calls[k].node \in BranchPaths(inputTree, <<>>)
           /\ CallsFor(R, <<>>) = {}

\* C33 witness: a returned build that made requests at all four levels and
\* skipped an entry of the tree
C33_Witness ==
    /\ treePc = "built"
    /\ ~call.ret.raised
    /\ \A l \in {"article", "section", "chapter", "part"} : \E k \in 1..Len(call.ret.calls) : call.ret.calls[k].level = l
    /\ \E q \in BranchPaths(inputTree, <<>>) : ~Alive(NodeAt(inputTree, q))

----------------------------------------------------------------------------
(* main's load path against the db_cli commands *)

\* the law_tree content load_law_tree returns for the rows one build of the
\* file with hash h stored for document d
TreeOfBuild(d, h) == load_law_tree({[id |-> d]}, _save_hierarchy_recursive(d, TreeOf(h), 0).rows, d)

\* C31: no mixed read: a reader that follows main's load path for D
\* (is_cache_complete(D) true, then load_law_tree(D), then load_indices(D)),
\* interleaved in any way with an invalidation or rebuild of D by another
\* process, never ends up with a tree from one build together with an
\* artifact pair from a different build; it either gets a tree and artifacts
\* of the same build or falls back to rebuilding.
C31_NoMixedRead ==
    [][(mainPc = "load_indices" /\ mainPc' = "ready") =>
           \E h \in Builds :
               /\ load_indices(objects, mainLocals.doc_id) = <<Pickle(h), Pickle(h)>>
               /\ mainLocals.law_tree = TreeOfBuild(mainLocals.doc_id, h)]_vars

====
